---- MODULE Spec2Model ----
(***************************************************************************)
(* Model of autobrr/tqm's file-identity tracking: the TorrentFileMap       *)
(* (pkg/torrentfilemap) with its per-path result cache and its mapped-path *)
(* cache, and the path mapping of the HardlinkFileMap (pkg/hardlinkfilemap)*)
(*                                                                         *)
(* Strings are sequences of small integers (bytes); Go maps are functions; *)
(* the iteration order of a Go map is a nondeterministic choice.           *)
(***************************************************************************)
EXTENDS Integers, Sequences, FiniteSets, TLC

\* ------------------------------------------------------------------------
\* Bounds and input sets
\* ------------------------------------------------------------------------

\* number of torrents the client knows (hashes 1..NumHashes)
NumHashes == 3

Hashes == 1..NumHashes

\* the Files list of each torrent of the client, by hash (Files is a Go slice:
\* ordered, a path may repeat). Torrents 1 and 2 share file "1", 2 has file
\* "12" as well, 3 has a file of its own, 4 lists a file twice, 5 has no file.
ClientFiles ==
    << << <<1>> >>, << <<1>>, <<1, 2>> >>, << <<1, 1>> >>,
       << <<1, 2>>, <<1, 2>> >>, <<>> >>

\* the file paths torrents are made of
FilePaths ==
    UNION { { ClientFiles[i][j] : j \in 1..Len(ClientFiles[i]) } : i \in 1..Len(ClientFiles) }

\* the local paths the orphan scan asks about: a prefix of file paths ("1"),
\* a suffix of one ("2"), and a path that has file path "1" as a substring
QueryPaths == { <<1>>, <<2>>, <<1, 2>> }

\* every local path of up to three bytes
LocalPaths ==
    { <<a>> : a \in 1..2 } \cup { <<a, b>> : a, b \in 1..2 }
        \cup { <<a, b, c>> : a, b, c \in 1..2 }

\* download_path_mapping tables: none, one rule, and two rules of which each
\* rewrites what the other produces
NoMapping == [k \in {} |-> <<>>]

OneRule == [k \in { <<1>> } |-> <<2>>]

TwoRules == [k \in { <<1>>, <<2>> } |-> IF k = <<1>> THEN <<2>> ELSE <<1>>]

Mappings == { NoMapping, OneRule, TwoRules }

\* ------------------------------------------------------------------------
\* Go strings
\* ------------------------------------------------------------------------

Min(a, b) == IF a <= b THEN a ELSE b

\* s < t, bytewise lexicographic (Go's string comparison)
StrLess(s, t) ==
    \E k \in 1..Len(t) :
        /\ \A j \in 1..(k - 1) : j <= Len(s) /\ s[j] = t[j]
        /\ (k > Len(s) \/ s[k] < t[k])

\* strings.HasPrefix(s, prefix)
HasPrefix(s, prefix) ==
    Len(prefix) <= Len(s) /\ SubSeq(s, 1, Len(prefix)) = prefix

\* the offsets (0-based) at which substr occurs in s
Occurrences(s, substr) ==
    { i \in 0..(Len(s) - Len(substr)) : SubSeq(s, i + 1, i + Len(substr)) = substr }

\* strings.Contains(s, substr)
Contains(s, substr) == Occurrences(s, substr) # {}

\* strings.Replace(s, old, new, 1): the first occurrence of old replaced
ReplaceFirst(s, old, new) ==
    IF Occurrences(s, old) = {} THEN s
    ELSE LET i == CHOOSE x \in Occurrences(s, old) :
                      \A y \in Occurrences(s, old) : x <= y
         IN SubSeq(s, 1, i) \o new \o SubSeq(s, i + Len(old) + 1, Len(s))

\* sort.Strings of the elements of a set of distinct strings
RECURSIVE SortStrings(_)
SortStrings(S) ==
    IF S = {} THEN <<>>
    ELSE LET m == CHOOSE x \in S : \A y \in S : y = x \/ StrLess(x, y)
         IN <<m>> \o SortStrings(S \ {m})

\* the orders in which a Go map with key set K may be iterated
Orders(K) ==
    { o \in [1..Cardinality(K) -> K] : \A i, j \in 1..Cardinality(K) : o[i] = o[j] => i = j }

\* ------------------------------------------------------------------------
\* State
\* ------------------------------------------------------------------------

VARIABLES
    torrentFileMap,  \* path -> (hash -> config.Torrent)
    pathIndex,       \* sorted slice of the keys of torrentFileMap
    indexDirty,      \* pathIndex needs rebuilding
    pathCache,       \* sync.Map: queried path -> bool
    mappingCache,    \* mappingCacheManager.caches: key -> mappedPathCache
    clientDownloadPathMapping,  \* the mapping table passed to HasPath
    tracked,         \* history: hashes added and not since removed
    pruned,          \* history: RemovePath has deleted a key of the index
    last,            \* history: the operation that produced this state
    torrentPathMapping,  \* HardlinkFileMap.torrentPathMapping
    declared,        \* history: the order the rules are declared in the configuration
    mapped,          \* history: path -> the results considerPathMapping returned for it
    mu,              \* TorrentFileMap.mu: the goroutines holding the RWMutex
    pc,              \* goroutine -> the call it is in and its position in it
    hardlinkFileMap, \* HardlinkFileMap.hardlinkFileMap: FileID -> slice of paths
    fs,              \* the filesystem: path -> inode, inode -> links outside the paths
    keyCache,        \* mappingCacheManager.caches seen by key: key -> the table and the order that built it
    flagDryRun,      \* --dry-run
    clientConfig,    \* the client's download_path_mapping setting
    ignored,         \* the local paths paths.IsIgnored reports for filter.Orphan.IgnorePaths
    recent,          \* the local files modified within the grace period
    scanPc,          \* the goroutine of the orphan command: its position and loop variables
    orphanFolderPaths,  \* the slice of candidate folders, after sort.Slice
    worker,          \* local file -> the position of the goroutine started for it
    result,          \* history: local path -> how the scan left it
    localFs,         \* the paths present under the download folder
    wg,              \* sync.WaitGroup counter
    workerSem,       \* the tokens in the channel workerSem
    report,          \* the counters and the fields of the summary
    unregisteredCache,    \* PTP.unregisteredCache: the keys of the map
    unregisteredFetched,  \* PTP.unregisteredFetched
    apiUnregistered,  \* the InfoHash list the tracker's API answers with at present
    apiCalls,        \* history: the API requests that succeeded, failed, followed a success
    fetchedList,     \* history: the list the last successful request returned
    ptpCall,         \* goroutine -> its call of IsUnregistered
    trackerCheck     \* a config.Torrent, the tracker error configuration, the last call

tfmVars == <<torrentFileMap, pathIndex, indexDirty, pathCache,
             mappingCache, clientDownloadPathMapping, tracked, pruned, last>>

mapVars == <<torrentPathMapping, declared, mapped>>

lockVars == <<mu, pc>>

hfmVars == <<hardlinkFileMap, fs>>

keyVars == <<keyCache>>

scanVars == <<flagDryRun, clientConfig, ignored, recent, scanPc, orphanFolderPaths,
              worker, result, localFs, wg, workerSem, report>>

ptpVars == <<unregisteredCache, unregisteredFetched, apiUnregistered, apiCalls,
             fetchedList, ptpCall>>

cmdVars == <<keyVars, scanVars, ptpVars, trackerCheck>>

vars == <<tfmVars, mapVars, lockVars, hfmVars, cmdVars>>


\* ------------------------------------------------------------------------
\* Go maps
\* ------------------------------------------------------------------------

EmptyMap == [k \in {} |-> {}]

\* m[k] = v
MapPut(m, k, v) == [x \in DOMAIN m \cup {k} |-> IF x = k THEN v ELSE m[x]]

\* delete(m, k)
MapDelete(m, k) == [x \in DOMAIN m \ {k} |-> m[x]]

\* no cache key has been computed
IdleKey == keyCache = EmptyMap

\* the byte '/' of a path
SlashByte == 47

\* the files found under the download folder: "a/a/b", "a/b", "bbbb/a"
localFilePaths ==
    { <<1, SlashByte, 1, SlashByte, 2>>, <<1, SlashByte, 2>>, <<2, 2, 2, 2, SlashByte, 1>> }

\* the folders found under the download folder: "a", "a/a", "bbbb" and the
\* empty folder "b"
localFolderPaths == { <<1>>, <<2>>, <<1, SlashByte, 1>>, <<2, 2, 2, 2>> }

\* the download_path_mapping setting is absent from the client's configuration
NoSetting == [present |-> FALSE, isMap |-> FALSE, tmp |-> EmptyMap]

\* the counters of the summary and the paths reported as removed
NoReport ==
    [ignoredLocalFiles |-> 0, removedLocalFiles |-> 0, ignoredLocalFolders |-> 0,
     removedLocalFolders |-> 0, removeFailures |-> 0, fields |-> {}]

\* the orphan command is not running
IdleScanPc == [at |-> "idle", i |-> 0, batch |-> <<>>, j |-> 0, k |-> 0]

IdleScan ==
    /\ flagDryRun = FALSE
    /\ clientConfig = NoSetting
    /\ ignored = {}
    /\ recent = {}
    /\ scanPc = IdleScanPc
    /\ orphanFolderPaths = <<>>
    /\ worker = [f \in localFilePaths |-> "none"]
    /\ result = [p \in localFilePaths \cup localFolderPaths |-> "none"]
    /\ localFs = {}
    /\ wg = 0
    /\ workerSem = 0
    /\ report = NoReport

\* no call of IsUnregistered
IdlePtpCall == [at |-> "idle", hash |-> <<>>, err |-> FALSE, isUnregistered |-> FALSE]

\* NewPTP: an empty cache, nothing fetched
IdlePTP ==
    /\ unregisteredCache = {}
    /\ unregisteredFetched = FALSE
    /\ apiUnregistered = {}
    /\ apiCalls = [ok |-> 0, failed |-> 0, refetched |-> FALSE]
    /\ fetchedList = {}
    /\ ptpCall = [g \in { "g1", "g2" } |-> IdlePtpCall]

\* no tracker status is looked at
IdleTracker == trackerCheck = [op |-> "none"]

\* the cache key, the orphan command and the tracker API are not in use
IdleCmd == IdleKey /\ IdleScan /\ IdlePTP /\ IdleTracker

\* ------------------------------------------------------------------------
\* TorrentFileMap: a value t of the struct is the record
\*   [torrentFileMap, pathIndex, indexDirty, pathCache, mappingCache]
\* ------------------------------------------------------------------------

\* the loop of addInternal and of Add over torrent.Files, from the i-th file on
RECURSIVE addFiles(_, _, _)
addFiles(m, torrent, i) ==
    IF i > Len(torrent.Files) THEN m
    ELSE LET f == torrent.Files[i]
         IN IF f \in DOMAIN m
            THEN addFiles(MapPut(m, f, MapPut(m[f], torrent.Hash, torrent)), torrent, i + 1)
            ELSE addFiles(MapPut(m, f, MapPut(EmptyMap, torrent.Hash, torrent)), torrent, i + 1)

addInternal(t, torrent) ==
    [t EXCEPT !.torrentFileMap = addFiles(t.torrentFileMap, torrent, 1),
              !.indexDirty = TRUE]

\* rebuildIndexInternal that appends to the index it has instead of starting
\* from an empty slice
rebuildIndexInternal_Append(t) ==
    IF ~t.indexDirty THEN t
    ELSE [t EXCEPT !.pathIndex = t.pathIndex \o SortStrings(DOMAIN t.torrentFileMap),
                   !.indexDirty = FALSE]

rebuildIndexInternal(t) ==
    IF ~t.indexDirty THEN t
    ELSE [t EXCEPT !.pathIndex = SortStrings(DOMAIN t.torrentFileMap),
                   !.indexDirty = FALSE]

\* mappingCacheManager.invalidate
invalidate(caches) == EmptyMap

\* New(torrents), the map of torrents iterated in the order given by ts
RECURSIVE addAll(_, _, _)
addAll(t, ts, i) ==
    IF i > Len(ts) THEN t ELSE addAll(addInternal(t, ts[i]), ts, i + 1)

New(ts) ==
    rebuildIndexInternal(
        addAll([torrentFileMap |-> EmptyMap, pathIndex |-> <<>>, indexDirty |-> TRUE,
                pathCache |-> EmptyMap, mappingCache |-> EmptyMap], ts, 1))

Add(t, torrent) ==
    LET t1 == [t EXCEPT !.torrentFileMap = addFiles(t.torrentFileMap, torrent, 1),
                        !.indexDirty = TRUE]
        t2 == rebuildIndexInternal(t1)
    IN [t2 EXCEPT !.mappingCache = invalidate(t2.mappingCache)]

\* the loop of Remove that leaves a file entry without hashes in the map
RECURSIVE removeFiles_KeepEmptyEntry(_, _, _, _)
removeFiles_KeepEmptyEntry(m, needsRebuild, torrent, i) ==
    IF i > Len(torrent.Files) THEN [m |-> m, needsRebuild |-> needsRebuild]
    ELSE LET f == torrent.Files[i]
         IN IF f \in DOMAIN m
            THEN removeFiles_KeepEmptyEntry(
                     MapPut(m, f, MapDelete(m[f], torrent.Hash)), needsRebuild, torrent, i + 1)
            ELSE removeFiles_KeepEmptyEntry(m, needsRebuild, torrent, i + 1)

\* the loop of Remove that deletes the file entry without looking at the
\* hashes left in it
RECURSIVE removeFiles_DropPath(_, _, _, _)
removeFiles_DropPath(m, needsRebuild, torrent, i) ==
    IF i > Len(torrent.Files) THEN [m |-> m, needsRebuild |-> needsRebuild]
    ELSE LET f == torrent.Files[i]
         IN IF f \in DOMAIN m
            THEN removeFiles_DropPath(MapDelete(m, f), TRUE, torrent, i + 1)
            ELSE removeFiles_DropPath(m, needsRebuild, torrent, i + 1)

\* the loop of Remove over torrent.Files: the map and needsRebuild
RECURSIVE removeFiles(_, _, _, _)
removeFiles(m, needsRebuild, torrent, i) ==
    IF i > Len(torrent.Files) THEN [m |-> m, needsRebuild |-> needsRebuild]
    ELSE LET f == torrent.Files[i]
         IN IF f \in DOMAIN m
            THEN LET hs == MapDelete(m[f], torrent.Hash)
                 IN IF Cardinality(DOMAIN hs) = 0
                    THEN removeFiles(MapDelete(m, f), TRUE, torrent, i + 1)
                    ELSE removeFiles(MapPut(m, f, hs), needsRebuild, torrent, i + 1)
            ELSE removeFiles(m, needsRebuild, torrent, i + 1)

Remove(t, torrent) ==
    LET r == removeFiles(t.torrentFileMap, FALSE, torrent, 1)
        t1 == [t EXCEPT !.torrentFileMap = r.m]
    IN IF r.needsRebuild
       THEN LET t2 == rebuildIndexInternal([t1 EXCEPT !.indexDirty = TRUE])
            IN [t2 EXCEPT !.mappingCache = invalidate(t2.mappingCache)]
       ELSE t1

\* IsUnique with the comparison of NoInstances
IsUnique_AtLeastOne(t, torrent) ==
    ~ \E i \in 1..Len(torrent.Files) :
          /\ torrent.Files[i] \in DOMAIN t.torrentFileMap
          /\ Cardinality(DOMAIN t.torrentFileMap[torrent.Files[i]]) >= 1

IsUnique(t, torrent) ==
    ~ \E i \in 1..Len(torrent.Files) :
          /\ torrent.Files[i] \in DOMAIN t.torrentFileMap
          /\ Cardinality(DOMAIN t.torrentFileMap[torrent.Files[i]]) > 1

\* NoInstances with the comparison of IsUnique
NoInstances_MoreThanOne(t, torrent) ==
    ~ \E i \in 1..Len(torrent.Files) :
          /\ torrent.Files[i] \in DOMAIN t.torrentFileMap
          /\ Cardinality(DOMAIN t.torrentFileMap[torrent.Files[i]]) > 1

NoInstances(t, torrent) ==
    ~ \E i \in 1..Len(torrent.Files) :
          /\ torrent.Files[i] \in DOMAIN t.torrentFileMap
          /\ Cardinality(DOMAIN t.torrentFileMap[torrent.Files[i]]) >= 1

Length(t) == Cardinality(DOMAIN t.torrentFileMap)

RemovePath(t, path) ==
    LET t1 == [t EXCEPT !.pathCache = MapDelete(t.pathCache, path)]
    IN IF path \in DOMAIN t1.torrentFileMap
       THEN LET t2 == rebuildIndexInternal(
                          [t1 EXCEPT !.torrentFileMap = MapDelete(t1.torrentFileMap, path),
                                     !.indexDirty = TRUE])
            IN [t2 EXCEPT !.mappingCache = invalidate(t2.mappingCache)]
       ELSE t1

\* ------------------------------------------------------------------------
\* HasPath
\* ------------------------------------------------------------------------

\* sort.Search(n, func(i) { return index[i] >= path }) as the binary search
\* between i and j (0-based positions, index[h + 1] is Go's index[h])
RECURSIVE sortSearch(_, _, _, _)
sortSearch(index, path, i, j) ==
    IF i < j
    THEN LET h == (i + j) \div 2
         IN IF StrLess(index[h + 1], path)
            THEN sortSearch(index, path, h + 1, j)
            ELSE sortSearch(index, path, i, h)
    ELSE i

\* the early termination test of both loops of hasPathDirect
noSharedPrefix(torrentPath, path) ==
    LET n == Min(Len(path), Len(torrentPath))
    IN /\ ~HasPrefix(torrentPath, SubSeq(path, 1, n))
       /\ ~HasPrefix(path, SubSeq(torrentPath, 1, n))

\* for i := idx; i < len(pathIndex); i++ (i is the 1-based position)
RECURSIVE scanForward(_, _, _)
scanForward(index, path, i) ==
    IF i > Len(index) THEN FALSE
    ELSE IF noSharedPrefix(index[i], path) THEN FALSE
    ELSE IF Contains(index[i], path) THEN TRUE
    ELSE scanForward(index, path, i + 1)

\* the backward loop without its early termination
RECURSIVE scanBackward_NoEarlyExit(_, _, _)
scanBackward_NoEarlyExit(index, path, i) ==
    IF i < 1 THEN FALSE
    ELSE IF Contains(index[i], path) THEN TRUE
    ELSE scanBackward_NoEarlyExit(index, path, i - 1)

\* for i := idx - 1; i >= 0; i-- (i is the 1-based position)
RECURSIVE scanBackward(_, _, _)
scanBackward(index, path, i) ==
    IF i < 1 THEN FALSE
    ELSE IF noSharedPrefix(index[i], path) THEN FALSE
    ELSE IF Contains(index[i], path) THEN TRUE
    ELSE scanBackward(index, path, i - 1)

hasPathDirect(t, path) ==
    LET idx == sortSearch(t.pathIndex, path, 0, Len(t.pathIndex))
    IN scanForward(t.pathIndex, path, idx + 1) \/ scanBackward(t.pathIndex, path, idx)

\* hasPathDirect as it was before the sorted index: the range loop over the
\* keys of torrentFileMap
hasPathDirectLinear(t, path) ==
    \E torrentPath \in DOMAIN t.torrentFileMap : Contains(torrentPath, path)

\* bytes '=' and '|' of the cache key
EqByte == 61

BarByte == 124

\* the loop of mappingCacheKey over the sorted keys, from the i-th key on
RECURSIVE joinRules(_, _, _)
joinRules(mapping, keys, i) ==
    IF i > Len(keys) THEN <<>>
    ELSE (IF i > 1 THEN <<BarByte>> ELSE <<>>)
         \o keys[i] \o <<EqByte>> \o mapping[keys[i]]
         \o joinRules(mapping, keys, i + 1)

mappingCacheKey(mapping) ==
    IF Cardinality(DOMAIN mapping) = 0 THEN <<>>
    ELSE joinRules(mapping, SortStrings(DOMAIN mapping), 1)

\* the inner loop of buildMappedPathCache: the rules applied one after the
\* other to the path, in the order the map iteration visits them
RECURSIVE applyRules(_, _, _, _)
applyRules(mappedPath, mapping, order, i) ==
    IF i > Len(order) THEN mappedPath
    ELSE applyRules(ReplaceFirst(mappedPath, order[i], mapping[order[i]]),
                    mapping, order, i + 1)

\* buildMappedPathCache; orders[i] is the iteration order of the mapping for
\* the i-th torrent path
buildMappedPathCache(torrentPaths, mapping, orders) ==
    [mappedPaths |->
        [i \in 1..Len(torrentPaths) |-> applyRules(torrentPaths[i], mapping, orders[i], 1)],
     originalToMapped |->
        [p \in { torrentPaths[i] : i \in 1..Len(torrentPaths) } |->
            LET i == CHOOSE k \in 1..Len(torrentPaths) :
                         /\ torrentPaths[k] = p
                         /\ \A l \in 1..Len(torrentPaths) : torrentPaths[l] = p => l <= k
            IN applyRules(p, mapping, orders[i], 1)]]

\* the iteration orders buildMappedPathCache may see, one per torrent path
IterationOrders(torrentPaths, mapping) ==
    [1..Len(torrentPaths) -> Orders(DOMAIN mapping)]

\* mappingCacheManager.getOrBuild: the caches and the cache returned
getOrBuild(caches, torrentPaths, mapping, orders) ==
    LET key == mappingCacheKey(mapping)
    IN IF key \in DOMAIN caches
       THEN [caches |-> caches, cache |-> caches[key]]
       ELSE LET cache == buildMappedPathCache(torrentPaths, mapping, orders)
            IN [caches |-> MapPut(caches, key, cache), cache |-> cache]

\* hasPathWithMapping: the struct and the result
hasPathWithMapping(t, path, mapping, orders) ==
    LET r == getOrBuild(t.mappingCache, t.pathIndex, mapping, orders)
    IN [t |-> [t EXCEPT !.mappingCache = r.caches],
        found |-> \E i \in 1..Len(r.cache.mappedPaths) :
                      Contains(r.cache.mappedPaths[i], path)]

\* HasPath: the struct and the result
HasPath(t, path, mapping, orders) ==
    IF path \in DOMAIN t.pathCache
    THEN [t |-> t, found |-> t.pathCache[path]]
    ELSE LET r == IF Cardinality(DOMAIN mapping) = 0
                  THEN [t |-> t, found |-> hasPathDirect(t, path)]
                  ELSE hasPathWithMapping(t, path, mapping, orders)
         IN [t |-> [r.t EXCEPT !.pathCache = MapPut(r.t.pathCache, path, r.found)],
             found |-> r.found]

\* ------------------------------------------------------------------------
\* mappingCacheKey, the keys collected in the order the map is iterated in
\* ------------------------------------------------------------------------

\* sort.Strings, one element put in its place in a sorted slice
RECURSIVE insertSorted(_, _)
insertSorted(sorted, k) ==
    IF sorted = <<>> THEN <<k>>
    ELSE IF StrLess(k, Head(sorted)) THEN <<k>> \o sorted
    ELSE <<Head(sorted)>> \o insertSorted(Tail(sorted), k)

\* sort.Strings(keys)
RECURSIVE sortedKeys(_)
sortedKeys(keys) ==
    IF keys = <<>> THEN <<>>
    ELSE insertSorted(sortedKeys(Tail(keys)), Head(keys))

\* mappingCacheKey without sort.Strings(keys): the rules joined in iteration order
mappingCacheKeyFrom_NoSort(mapping, order) ==
    IF Cardinality(DOMAIN mapping) = 0 THEN <<>>
    ELSE joinRules(mapping, order, 1)

\* mappingCacheKey: order is the slice "keys" after the range loop over the map
mappingCacheKeyFrom(mapping, order) ==
    IF Cardinality(DOMAIN mapping) = 0 THEN <<>>
    ELSE joinRules(mapping, sortedKeys(order), 1)

\* ------------------------------------------------------------------------
\* The TorrentFileMap as a state machine
\* ------------------------------------------------------------------------

\* IsUnique, NoInstances and Length read the map under the read lock and
\* change nothing: they are the operators above, evaluated on the state.

\* the struct in the current state
Self ==
    [torrentFileMap |-> torrentFileMap, pathIndex |-> pathIndex,
     indexDirty |-> indexDirty, pathCache |-> pathCache,
     mappingCache |-> mappingCache]

Becomes(t) ==
    /\ torrentFileMap' = t.torrentFileMap
    /\ pathIndex' = t.pathIndex
    /\ indexDirty' = t.indexDirty
    /\ pathCache' = t.pathCache
    /\ mappingCache' = t.mappingCache

\* the client's torrents: hash -> config.Torrent
torrents ==
    [h \in Hashes |-> [Hash |-> h, Files |-> ClientFiles[((h - 1) % Len(ClientFiles)) + 1]]]

\* the set of paths in torrent.Files
FileSet(torrent) == { torrent.Files[i] : i \in 1..Len(torrent.Files) }

\* the hashes registered under a path
HashesOf(t, p) == IF p \in DOMAIN t.torrentFileMap THEN DOMAIN t.torrentFileMap[p] ELSE {}

\* a hash is registered under some path
Registered(t, h) == \E p \in DOMAIN t.torrentFileMap : h \in DOMAIN t.torrentFileMap[p]

\* the map is constructed from some of the client's torrents (in the order
\* the iteration over the map of torrents visits them); the command reads the
\* client's download_path_mapping
InitTFM ==
    /\ clientDownloadPathMapping \in Mappings
    /\ \E S \in SUBSET Hashes : \E order \in Orders(S) :
          /\ tracked = S
          /\ LET t == New([i \in 1..Cardinality(S) |-> torrents[order[i]]])
             IN /\ torrentFileMap = t.torrentFileMap
                /\ pathIndex = t.pathIndex
                /\ indexDirty = t.indexDirty
                /\ pathCache = t.pathCache
                /\ mappingCache = t.mappingCache
    /\ pruned = FALSE
    /\ last = [op |-> "New", hash |-> 0, path |-> <<>>, flag |-> FALSE]

\* flag: the torrent's hash was registered under no path before the call
DoAdd(h) ==
    /\ Becomes(Add(Self, torrents[h]))
    /\ tracked' = tracked \cup {h}
    /\ last' = [op |-> "Add", hash |-> h, path |-> <<>>, flag |-> ~Registered(Self, h)]
    /\ UNCHANGED <<clientDownloadPathMapping, pruned, mapVars, cmdVars, lockVars, hfmVars>>

\* flag: the torrent's hash was registered under some path before the call
DoRemove(h) ==
    /\ Becomes(Remove(Self, torrents[h]))
    /\ tracked' = tracked \ {h}
    /\ last' = [op |-> "Remove", hash |-> h, path |-> <<>>, flag |-> Registered(Self, h)]
    /\ UNCHANGED <<clientDownloadPathMapping, pruned, mapVars, cmdVars, lockVars, hfmVars>>

\* flag: the path was a key of the index
DoRemovePath(p) ==
    /\ Becomes(RemovePath(Self, p))
    /\ pruned' = (pruned \/ p \in DOMAIN torrentFileMap)
    /\ last' = [op |-> "RemovePath", hash |-> 0, path |-> p,
                flag |-> p \in DOMAIN torrentFileMap]
    /\ UNCHANGED <<clientDownloadPathMapping, tracked, mapVars, cmdVars, lockVars, hfmVars>>

\* flag: the result
DoHasPath(p) ==
    \E orders \in IterationOrders(pathIndex, clientDownloadPathMapping) :
        LET r == HasPath(Self, p, clientDownloadPathMapping, orders)
        IN /\ Becomes(r.t)
           /\ last' = [op |-> "HasPath", hash |-> 0, path |-> p, flag |-> r.found]
           /\ UNCHANGED <<clientDownloadPathMapping, tracked, pruned, mapVars, cmdVars, lockVars, hfmVars>>

\* ------------------------------------------------------------------------
\* HardlinkFileMap.considerPathMapping
\* ------------------------------------------------------------------------

\* the loop of considerPathMapping over the mapping, visited in the given
\* order, from the i-th rule on
RECURSIVE firstPrefixRule(_, _, _, _)
firstPrefixRule(mapping, path, order, i) ==
    IF i > Len(order) THEN path
    ELSE IF HasPrefix(path, order[i])
         THEN ReplaceFirst(path, order[i], mapping[order[i]])
         ELSE firstPrefixRule(mapping, path, order, i + 1)

considerPathMapping(mapping, path, order) == firstPrefixRule(mapping, path, order, 1)

\* the rule sources and targets of the mapping tables
MapFroms == { <<1>>, <<1, 2>>, <<2>> }

MapTos == { <<3>>, <<3, 3>> }

MapTables == UNION { [S -> MapTos] : S \in SUBSET MapFroms }

\* no path mapping in use
IdleMap ==
    /\ torrentPathMapping = NoMapping
    /\ declared = <<>>
    /\ mapped = [p \in FilePaths |-> {}]

\* no torrent file map in use
IdleTFM ==
    /\ clientDownloadPathMapping = NoMapping
    /\ tracked = {}
    /\ LET t == New(<<>>)
       IN /\ torrentFileMap = t.torrentFileMap
          /\ pathIndex = t.pathIndex
          /\ indexDirty = t.indexDirty
          /\ pathCache = t.pathCache
          /\ mappingCache = t.mappingCache
    /\ pruned = FALSE
    /\ last = [op |-> "New", hash |-> 0, path |-> <<>>, flag |-> FALSE]

\* ------------------------------------------------------------------------
\* HardlinkFileMap: the index is the map hardlinkFileMap, FileID -> slice of
\* paths; a FileID is an inode number on the one device of the model
\* ------------------------------------------------------------------------

\* the paths the client's files are at after the mapping
HPaths == { <<1>>, <<2>>, <<3>> }

Inodes == { 1, 2 }

\* the mapping tables of the hardlink index
HMappings == { NoMapping, OneRule }

\* the client's torrents as the hardlink index sees them: hash -> config.Torrent
hlTorrents ==
    << [Hash |-> 1, Files |-> << <<1>> >>,        Downloaded |-> TRUE],
       [Hash |-> 2, Files |-> << <<2>> >>,        Downloaded |-> TRUE],
       [Hash |-> 3, Files |-> << <<1>>, <<3>> >>, Downloaded |-> TRUE],
       [Hash |-> 4, Files |-> << <<3>>, <<2>> >>, Downloaded |-> FALSE] >>

HHashes == DOMAIN hlTorrents

\* a filesystem: ino[p] is the inode of path p, NoFile when stat fails;
\* extra[id] counts the links to inode id from outside HPaths
NoFile == 0

FileSystems == [ino : [HPaths -> Inodes \cup {NoFile}], extra : [Inodes -> {0, 1}]]

\* st_nlink of an inode
Nlink(fsys, id) == Cardinality({ p \in HPaths : fsys.ino[p] = id }) + fsys.extra[id]

\* getFileID and linkInfoByPath: identity and link count, ok = FALSE on error
linkInfoByPath(fsys, path) ==
    IF path \in HPaths /\ fsys.ino[path] # NoFile
    THEN [id |-> fsys.ino[path], nlink |-> Nlink(fsys, fsys.ino[path]), ok |-> TRUE]
    ELSE [id |-> NoFile, nlink |-> 0, ok |-> FALSE]

\* a path is in a slice of paths
InSlice(paths, f) == \E k \in 1..Len(paths) : paths[k] = f

\* the iteration orders of the mapping table, one per file of the torrent
HOrders(mapping, torrent) ==
    [1..Len(torrent.Files) -> Orders(DOMAIN mapping)]

\* the body of the loop of AddByTorrent without the search for the path in
\* the bucket
addPath_NoDedup(m, fsys, f) ==
    LET li == linkInfoByPath(fsys, f)
    IN IF ~li.ok THEN m
       ELSE IF li.id \in DOMAIN m
            THEN MapPut(m, li.id, Append(m[li.id], f))
            ELSE MapPut(m, li.id, <<f>>)

\* the body of the loop of AddByTorrent for the mapped path f
addPath(m, fsys, f) ==
    LET li == linkInfoByPath(fsys, f)
    IN IF ~li.ok THEN m
       ELSE IF li.id \in DOMAIN m
            THEN IF InSlice(m[li.id], f) THEN m
                 ELSE MapPut(m, li.id, Append(m[li.id], f))
            ELSE MapPut(m, li.id, <<f>>)

\* the loop of AddByTorrent that returns at the first file that fails to
\* resolve
RECURSIVE addByFiles_StopAtFailure(_, _, _, _, _, _)
addByFiles_StopAtFailure(m, fsys, mapping, torrent, orders, i) ==
    IF i > Len(torrent.Files) THEN m
    ELSE LET f == considerPathMapping(mapping, torrent.Files[i], orders[i])
         IN IF ~linkInfoByPath(fsys, f).ok THEN m
            ELSE addByFiles_StopAtFailure(addPath(m, fsys, f),
                                          fsys, mapping, torrent, orders, i + 1)

\* the loop of AddByTorrent over torrent.Files, from the i-th file on
RECURSIVE addByFiles(_, _, _, _, _, _)
addByFiles(m, fsys, mapping, torrent, orders, i) ==
    IF i > Len(torrent.Files) THEN m
    ELSE addByFiles(addPath(m, fsys,
                            considerPathMapping(mapping, torrent.Files[i], orders[i])),
                    fsys, mapping, torrent, orders, i + 1)

\* AddByTorrent without the test of torrent.Downloaded
AddByTorrent_AnyTorrent(m, fsys, mapping, torrent, orders) ==
    addByFiles(m, fsys, mapping, torrent, orders, 1)

AddByTorrent(m, fsys, mapping, torrent, orders) ==
    IF ~torrent.Downloaded THEN m
    ELSE addByFiles(m, fsys, mapping, torrent, orders, 1)

\* the body of the loop of RemoveByTorrent for the mapped path f
removePath(m, fsys, f) ==
    LET li == linkInfoByPath(fsys, f)
    IN IF ~li.ok THEN m
       ELSE IF li.id \in DOMAIN m
            THEN LET newPaths == SelectSeq(m[li.id], LAMBDA path : path # f)
                 IN IF Len(newPaths) = 0 THEN MapDelete(m, li.id)
                    ELSE MapPut(m, li.id, newPaths)
            ELSE m

\* the loop of RemoveByTorrent over torrent.Files, from the i-th file on
RECURSIVE removeByFiles(_, _, _, _, _, _)
removeByFiles(m, fsys, mapping, torrent, orders, i) ==
    IF i > Len(torrent.Files) THEN m
    ELSE removeByFiles(removePath(m, fsys,
                                  considerPathMapping(mapping, torrent.Files[i], orders[i])),
                       fsys, mapping, torrent, orders, i + 1)

RemoveByTorrent(m, fsys, mapping, torrent, orders) ==
    IF ~torrent.Downloaded THEN m
    ELSE removeByFiles(m, fsys, mapping, torrent, orders, 1)

\* hardlinkfilemap.New: AddByTorrent for every torrent of ts, a sequence in
\* the order the iteration over the map of torrents visits them
RECURSIVE hlAddAll(_, _, _, _, _, _)
hlAddAll(m, fsys, mapping, ts, allOrders, i) ==
    IF i > Len(ts) THEN m
    ELSE hlAddAll(AddByTorrent(m, fsys, mapping, ts[i], allOrders[i]),
                  fsys, mapping, ts, allOrders, i + 1)

hlNew(fsys, mapping, ts, allOrders) == hlAddAll(EmptyMap, fsys, mapping, ts, allOrders, 1)

countLinks(m, fsys, mapping, f, order) ==
    LET li == linkInfoByPath(fsys, considerPathMapping(mapping, f, order))
    IN IF ~li.ok THEN [inmap |-> 0, total |-> 0, ok |-> FALSE]
       ELSE IF li.id \in DOMAIN m
            THEN [inmap |-> Len(m[li.id]), total |-> li.nlink, ok |-> TRUE]
            ELSE [inmap |-> 0, total |-> li.nlink, ok |-> TRUE]

\* the loop of HardlinkedOutsideClient that reports only link counts above
\* the number of known paths
RECURSIVE outsideFiles_MoreLinks(_, _, _, _, _, _)
outsideFiles_MoreLinks(m, fsys, mapping, torrent, orders, i) ==
    IF i > Len(torrent.Files) THEN FALSE
    ELSE LET c == countLinks(m, fsys, mapping, torrent.Files[i], orders[i])
         IN IF ~c.ok THEN outsideFiles_MoreLinks(m, fsys, mapping, torrent, orders, i + 1)
            ELSE IF c.total > c.inmap THEN TRUE
            ELSE outsideFiles_MoreLinks(m, fsys, mapping, torrent, orders, i + 1)

\* the loop of HardlinkedOutsideClient over torrent.Files, from the i-th file on
RECURSIVE outsideFiles(_, _, _, _, _, _)
outsideFiles(m, fsys, mapping, torrent, orders, i) ==
    IF i > Len(torrent.Files) THEN FALSE
    ELSE LET c == countLinks(m, fsys, mapping, torrent.Files[i], orders[i])
         IN IF ~c.ok THEN outsideFiles(m, fsys, mapping, torrent, orders, i + 1)
            ELSE IF c.total # c.inmap THEN TRUE
            ELSE outsideFiles(m, fsys, mapping, torrent, orders, i + 1)

HardlinkedOutsideClient(m, fsys, mapping, torrent, orders) ==
    IF ~torrent.Downloaded THEN FALSE
    ELSE outsideFiles(m, fsys, mapping, torrent, orders, 1)

\* the loop of IsTorrentUnique with the comparison of NoInstances
RECURSIVE uniqueFiles_NoPath(_, _, _, _, _, _)
uniqueFiles_NoPath(m, fsys, mapping, torrent, orders, i) ==
    IF i > Len(torrent.Files) THEN TRUE
    ELSE LET c == countLinks(m, fsys, mapping, torrent.Files[i], orders[i])
         IN IF ~c.ok THEN FALSE
            ELSE IF c.inmap # 0 THEN FALSE
            ELSE uniqueFiles_NoPath(m, fsys, mapping, torrent, orders, i + 1)

\* the loop of IsTorrentUnique over torrent.Files, from the i-th file on
RECURSIVE uniqueFiles(_, _, _, _, _, _)
uniqueFiles(m, fsys, mapping, torrent, orders, i) ==
    IF i > Len(torrent.Files) THEN TRUE
    ELSE LET c == countLinks(m, fsys, mapping, torrent.Files[i], orders[i])
         IN IF ~c.ok THEN FALSE
            ELSE IF c.inmap > 1 THEN FALSE
            ELSE uniqueFiles(m, fsys, mapping, torrent, orders, i + 1)

IsTorrentUnique(m, fsys, mapping, torrent, orders) ==
    IF ~torrent.Downloaded THEN TRUE
    ELSE uniqueFiles(m, fsys, mapping, torrent, orders, 1)

\* the loop of HardlinkFileMap.NoInstances that skips a file that fails to
\* resolve
RECURSIVE absentFiles_SkipUnresolved(_, _, _, _, _, _)
absentFiles_SkipUnresolved(m, fsys, mapping, torrent, orders, i) ==
    IF i > Len(torrent.Files) THEN TRUE
    ELSE LET c == countLinks(m, fsys, mapping, torrent.Files[i], orders[i])
         IN IF c.ok /\ c.inmap # 0 THEN FALSE
            ELSE absentFiles_SkipUnresolved(m, fsys, mapping, torrent, orders, i + 1)

\* the loop of HardlinkFileMap.NoInstances over torrent.Files, from the i-th file on
RECURSIVE absentFiles(_, _, _, _, _, _)
absentFiles(m, fsys, mapping, torrent, orders, i) ==
    IF i > Len(torrent.Files) THEN TRUE
    ELSE LET c == countLinks(m, fsys, mapping, torrent.Files[i], orders[i])
         IN IF ~c.ok THEN FALSE
            ELSE IF c.inmap # 0 THEN FALSE
            ELSE absentFiles(m, fsys, mapping, torrent, orders, i + 1)

\* HardlinkFileMap.NoInstances
hlNoInstances(m, fsys, mapping, torrent, orders) ==
    IF ~torrent.Downloaded THEN TRUE
    ELSE absentFiles(m, fsys, mapping, torrent, orders, 1)

\* HardlinkFileMap.Length
hlLength(m) == Cardinality(DOMAIN m)

\* ------------------------------------------------------------------------
\* Goroutines and the RWMutex of the TorrentFileMap
\* ------------------------------------------------------------------------

Goroutines == { "g1", "g2" }

NoGoroutine == "none"

\* a goroutine outside every call
IdlePC == [op |-> "idle", at |-> "idle"]

\* no goroutine in a call, the mutex free
IdleLock ==
    /\ mu = [writer |-> NoGoroutine, readers |-> {}]
    /\ pc = [g \in Goroutines |-> IdlePC]

\* ------------------------------------------------------------------------
\* The HardlinkFileMap as a state machine, the filesystem changing under it
\* ------------------------------------------------------------------------

\* IsTorrentUnique, HardlinkedOutsideClient, NoInstances and Length change
\* nothing: they are the operators above, evaluated on the state.

\* no hardlink index in use
IdleHFM ==
    /\ hardlinkFileMap = EmptyMap
    /\ fs = [ino |-> [p \in HPaths |-> NoFile], extra |-> [id \in Inodes |-> 0]]

\* the iteration orders of the mapping table for every file of every torrent
\* of the sequence ts
AllHOrders(mapping, ts) ==
    { f \in [1..Len(ts) -> UNION { HOrders(mapping, ts[i]) : i \in 1..Len(ts) }] :
          \A i \in 1..Len(ts) : f[i] \in HOrders(mapping, ts[i]) }

\* the index is constructed from some of the client's torrents
InitHFM ==
    /\ torrentPathMapping \in HMappings
    /\ declared = <<>>
    /\ mapped = [p \in FilePaths |-> {}]
    /\ fs \in FileSystems
    /\ \E S \in SUBSET HHashes : \E order \in Orders(S) :
          LET ts == [i \in 1..Cardinality(S) |-> hlTorrents[order[i]]]
          IN \E allOrders \in AllHOrders(torrentPathMapping, ts) :
                hardlinkFileMap = hlNew(fs, torrentPathMapping, ts, allOrders)
    /\ IdleTFM
    /\ IdleLock
    /\ IdleCmd

DoAddByTorrent(h) ==
    \E orders \in HOrders(torrentPathMapping, hlTorrents[h]) :
        /\ hardlinkFileMap' = AddByTorrent(hardlinkFileMap, fs, torrentPathMapping,
                                           hlTorrents[h], orders)
        /\ last' = [op |-> "AddByTorrent", hash |-> h, path |-> <<>>, flag |-> FALSE]
        /\ UNCHANGED <<torrentFileMap, pathIndex, indexDirty, pathCache, mappingCache,
                       clientDownloadPathMapping, tracked, pruned, mapVars, cmdVars, lockVars, fs>>

DoRemoveByTorrent(h) ==
    \E orders \in HOrders(torrentPathMapping, hlTorrents[h]) :
        /\ hardlinkFileMap' = RemoveByTorrent(hardlinkFileMap, fs, torrentPathMapping,
                                              hlTorrents[h], orders)
        /\ last' = [op |-> "RemoveByTorrent", hash |-> h, path |-> <<>>, flag |-> FALSE]
        /\ UNCHANGED <<torrentFileMap, pathIndex, indexDirty, pathCache, mappingCache,
                       clientDownloadPathMapping, tracked, pruned, mapVars, cmdVars, lockVars, fs>>

\* the file at a path is deleted, created or replaced by another file
FsRelink(p, id) ==
    /\ fs.ino[p] # id
    /\ fs' = [fs EXCEPT !.ino[p] = id]
    /\ last' = [op |-> "Fs", hash |-> 0, path |-> p, flag |-> FALSE]
    /\ UNCHANGED <<torrentFileMap, pathIndex, indexDirty, pathCache, mappingCache,
                   clientDownloadPathMapping, tracked, pruned, mapVars, cmdVars, lockVars,
                   hardlinkFileMap>>

\* a hard link to a file is made or removed outside the client's paths
FsLinkOutside(id) ==
    /\ fs' = [fs EXCEPT !.extra[id] = 1 - @]
    /\ last' = [op |-> "Fs", hash |-> 0, path |-> <<>>, flag |-> FALSE]
    /\ UNCHANGED <<torrentFileMap, pathIndex, indexDirty, pathCache, mappingCache,
                   clientDownloadPathMapping, tracked, pruned, mapVars, cmdVars, lockVars,
                   hardlinkFileMap>>

NextHFM ==
    \/ \E h \in HHashes : DoAddByTorrent(h)
    \/ \E h \in HHashes : DoRemoveByTorrent(h)
    \/ \E p \in HPaths : \E id \in Inodes \cup {NoFile} : FsRelink(p, id)
    \/ \E id \in Inodes : FsLinkOutside(id)

SpecHFM == InitHFM /\ [][NextHFM]_vars

\* ------------------------------------------------------------------------
\* The TorrentFileMap called by several goroutines
\* ------------------------------------------------------------------------

\* sync.RWMutex: Lock waits for the writer and for every reader
canLock_IgnoreReaders(m) == m.writer = NoGoroutine

\* sync.RWMutex: Lock proceeds when no goroutine holds the mutex
canLock(m) == m.writer = NoGoroutine /\ m.readers = {}

\* sync.RWMutex: RLock proceeds when no goroutine holds the write lock
canRLock(m) == m.writer = NoGoroutine

\* the torrents and the paths the goroutines call the map with
LockHashes == { 1, 2 }

LockPaths == { <<1>>, <<1, 2>> }

\* the position of goroutine g changes to the fields of rec
Goto(g, rec) == pc' = [pc EXCEPT ![g] = rec]

\* a call: the operation, the position in it, the arguments, the loop index,
\* needsRebuild, the result so far, and the outcome of the same call applied
\* in one step to the map as it was when the lock was acquired
Call(op, at, hash, path, want) ==
    [op |-> op, at |-> at, hash |-> hash, path |-> path, i |-> 1,
     needsRebuild |-> FALSE, result |-> FALSE, want |-> want]

\* what the state machine of the locked map leaves alone
LockFrame == UNCHANGED <<clientDownloadPathMapping, tracked, last, mapVars, cmdVars, hfmVars>>

\* the map is constructed by one goroutine before the others start
InitLock ==
    /\ clientDownloadPathMapping \in { NoMapping, OneRule }
    /\ \E S \in SUBSET LockHashes : \E order \in Orders(S) :
          LET t == New([i \in 1..Cardinality(S) |-> torrents[order[i]]])
          IN /\ torrentFileMap = t.torrentFileMap
             /\ pathIndex = t.pathIndex
             /\ indexDirty = t.indexDirty
             /\ pathCache = t.pathCache
             /\ mappingCache = t.mappingCache
    /\ tracked = {}
    /\ pruned = FALSE
    /\ last = [op |-> "New", hash |-> 0, path |-> <<>>, flag |-> FALSE]
    /\ IdleLock
    /\ IdleCmd
    /\ IdleMap
    /\ IdleHFM

\* Add: t.mu.Lock()
LockAdd(g, h) ==
    /\ pc[g] = IdlePC
    /\ canLock(mu)
    /\ mu' = [mu EXCEPT !.writer = g]
    /\ Goto(g, Call("Add", IF Len(torrents[h].Files) = 0 THEN "dirty" ELSE "files",
                    h, <<>>, Add(Self, torrents[h])))
    /\ UNCHANGED <<torrentFileMap, pathIndex, indexDirty, pathCache, mappingCache, pruned>>
    /\ LockFrame

\* Add: one iteration of the loop over torrent.Files
AddFile(g) ==
    /\ pc[g].op = "Add" /\ pc[g].at = "files"
    /\ LET torrent == torrents[pc[g].hash]
           f == torrent.Files[pc[g].i]
       IN /\ torrentFileMap' =
                 MapPut(torrentFileMap, f,
                        MapPut(IF f \in DOMAIN torrentFileMap THEN torrentFileMap[f]
                               ELSE EmptyMap,
                               torrent.Hash, torrent))
          /\ Goto(g, [pc[g] EXCEPT !.i = @ + 1,
                                   !.at = IF pc[g].i = Len(torrent.Files)
                                          THEN "dirty" ELSE "files"])
    /\ UNCHANGED <<pathIndex, indexDirty, pathCache, mappingCache, pruned, mu>>
    /\ LockFrame

\* Remove: t.mu.Lock()
LockRemove(g, h) ==
    /\ pc[g] = IdlePC
    /\ canLock(mu)
    /\ mu' = [mu EXCEPT !.writer = g]
    /\ Goto(g, Call("Remove", IF Len(torrents[h].Files) = 0 THEN "unlock" ELSE "files",
                    h, <<>>, Remove(Self, torrents[h])))
    /\ UNCHANGED <<torrentFileMap, pathIndex, indexDirty, pathCache, mappingCache, pruned>>
    /\ LockFrame

\* Remove: one iteration of the loop over torrent.Files
RemoveFile(g) ==
    /\ pc[g].op = "Remove" /\ pc[g].at = "files"
    /\ LET torrent == torrents[pc[g].hash]
           f == torrent.Files[pc[g].i]
           hs == MapDelete(torrentFileMap[f], torrent.Hash)
           emptied == f \in DOMAIN torrentFileMap /\ Cardinality(DOMAIN hs) = 0
           needsRebuild == pc[g].needsRebuild \/ emptied
       IN /\ torrentFileMap' =
                 IF f \notin DOMAIN torrentFileMap THEN torrentFileMap
                 ELSE IF emptied THEN MapDelete(torrentFileMap, f)
                 ELSE MapPut(torrentFileMap, f, hs)
          /\ Goto(g, [pc[g] EXCEPT !.i = @ + 1,
                                   !.needsRebuild = needsRebuild,
                                   !.at = IF pc[g].i < Len(torrent.Files) THEN "files"
                                          ELSE IF needsRebuild THEN "dirty"
                                          ELSE "unlock"])
    /\ UNCHANGED <<pathIndex, indexDirty, pathCache, mappingCache, pruned, mu>>
    /\ LockFrame

\* RemovePath: t.mu.Lock()
LockRemovePath(g, p) ==
    /\ pc[g] = IdlePC
    /\ canLock(mu)
    /\ mu' = [mu EXCEPT !.writer = g]
    /\ Goto(g, Call("RemovePath", "delete", 0, p, RemovePath(Self, p)))
    /\ UNCHANGED <<torrentFileMap, pathIndex, indexDirty, pathCache, mappingCache, pruned>>
    /\ LockFrame

\* RemovePath: the path leaves the path cache and the map
DeletePath(g) ==
    /\ pc[g].op = "RemovePath" /\ pc[g].at = "delete"
    /\ pathCache' = MapDelete(pathCache, pc[g].path)
    /\ torrentFileMap' = MapDelete(torrentFileMap, pc[g].path)
    /\ pruned' = (pruned \/ pc[g].path \in DOMAIN torrentFileMap)
    /\ Goto(g, [pc[g] EXCEPT !.at = IF pc[g].path \in DOMAIN torrentFileMap
                                    THEN "dirty" ELSE "unlock"])
    /\ UNCHANGED <<pathIndex, indexDirty, mappingCache, mu>>
    /\ LockFrame

\* Add, Remove, RemovePath: t.indexDirty = true
MarkDirty(g) ==
    /\ pc[g].op \in { "Add", "Remove", "RemovePath" } /\ pc[g].at = "dirty"
    /\ indexDirty' = TRUE
    /\ Goto(g, [pc[g] EXCEPT !.at = "rebuild"])
    /\ UNCHANGED <<torrentFileMap, pathIndex, pathCache, mappingCache, pruned, mu>>
    /\ LockFrame

\* Add, Remove, RemovePath: t.rebuildIndexInternal()
Rebuild(g) ==
    /\ pc[g].op \in { "Add", "Remove", "RemovePath" } /\ pc[g].at = "rebuild"
    /\ LET t == rebuildIndexInternal(Self)
       IN /\ pathIndex' = t.pathIndex
          /\ indexDirty' = t.indexDirty
    /\ Goto(g, [pc[g] EXCEPT !.at = "invalidate"])
    /\ UNCHANGED <<torrentFileMap, pathCache, mappingCache, pruned, mu>>
    /\ LockFrame

\* Add, Remove, RemovePath: t.mappingCache.invalidate()
Invalidate(g) ==
    /\ pc[g].op \in { "Add", "Remove", "RemovePath" } /\ pc[g].at = "invalidate"
    /\ mappingCache' = invalidate(mappingCache)
    /\ Goto(g, [pc[g] EXCEPT !.at = "unlock"])
    /\ UNCHANGED <<torrentFileMap, pathIndex, indexDirty, pathCache, pruned, mu>>
    /\ LockFrame

\* Add, Remove, RemovePath: the deferred t.mu.Unlock()
Unlock(g) ==
    /\ pc[g].op \in { "Add", "Remove", "RemovePath" } /\ pc[g].at = "unlock"
    /\ mu' = [mu EXCEPT !.writer = NoGoroutine]
    /\ Goto(g, IdlePC)
    /\ UNCHANGED <<torrentFileMap, pathIndex, indexDirty, pathCache, mappingCache, pruned>>
    /\ LockFrame

\* IsUnique, NoInstances: t.mu.RLock()
RLockQuery(g, op, h) ==
    /\ pc[g] = IdlePC
    /\ canRLock(mu)
    /\ mu' = [mu EXCEPT !.readers = @ \cup {g}]
    /\ Goto(g, [Call(op, IF Len(torrents[h].Files) = 0 THEN "runlock" ELSE "files",
                     h, <<>>,
                     IF op = "IsUnique" THEN IsUnique(Self, torrents[h])
                     ELSE NoInstances(Self, torrents[h]))
                EXCEPT !.result = TRUE])
    /\ UNCHANGED <<torrentFileMap, pathIndex, indexDirty, pathCache, mappingCache, pruned>>
    /\ LockFrame

\* IsUnique, NoInstances: one iteration of the loop over torrent.Files
QueryFile(g) ==
    /\ pc[g].op \in { "IsUnique", "NoInstances" } /\ pc[g].at = "files"
    /\ LET torrent == torrents[pc[g].hash]
           f == torrent.Files[pc[g].i]
           n == IF f \in DOMAIN torrentFileMap
                THEN Cardinality(DOMAIN torrentFileMap[f]) ELSE 0
           no == /\ f \in DOMAIN torrentFileMap
                 /\ IF pc[g].op = "IsUnique" THEN n > 1 ELSE n >= 1
       IN Goto(g, [pc[g] EXCEPT !.i = @ + 1,
                                !.result = ~no,
                                !.at = IF no \/ pc[g].i = Len(torrent.Files)
                                       THEN "runlock" ELSE "files"])
    /\ UNCHANGED <<torrentFileMap, pathIndex, indexDirty, pathCache, mappingCache,
                   pruned, mu>>
    /\ LockFrame

\* Length: t.mu.RLock()
RLockLength(g) ==
    /\ pc[g] = IdlePC
    /\ canRLock(mu)
    /\ mu' = [mu EXCEPT !.readers = @ \cup {g}]
    /\ Goto(g, Call("Length", "len", 0, <<>>, Length(Self)))
    /\ UNCHANGED <<torrentFileMap, pathIndex, indexDirty, pathCache, mappingCache, pruned>>
    /\ LockFrame

\* Length: len(t.torrentFileMap)
ReadLength(g) ==
    /\ pc[g].op = "Length" /\ pc[g].at = "len"
    /\ Goto(g, [pc[g] EXCEPT !.result = Cardinality(DOMAIN torrentFileMap),
                             !.at = "runlock"])
    /\ UNCHANGED <<torrentFileMap, pathIndex, indexDirty, pathCache, mappingCache,
                   pruned, mu>>
    /\ LockFrame

\* HasPath: t.pathCache.Load(path) finds nothing (a hit returns the cached
\* value at once and changes nothing)
LoadCache(g, p) ==
    /\ pc[g] = IdlePC
    /\ p \notin DOMAIN pathCache
    /\ Goto(g, Call("HasPath", "rlock", 0, p, FALSE))
    /\ UNCHANGED <<torrentFileMap, pathIndex, indexDirty, pathCache, mappingCache,
                   pruned, mu>>
    /\ LockFrame

\* the evaluation of HasPath inside the read lock: the mapping caches and
\* the result
evalHasPath(t, path, mapping, orders) ==
    IF Cardinality(DOMAIN mapping) = 0
    THEN [caches |-> t.mappingCache, found |-> hasPathDirect(t, path)]
    ELSE LET r == hasPathWithMapping(t, path, mapping, orders)
         IN [caches |-> r.t.mappingCache, found |-> r.found]

\* HasPath: t.mu.RLock()
RLockHasPath(g) ==
    /\ pc[g].op = "HasPath" /\ pc[g].at = "rlock"
    /\ canRLock(mu)
    /\ mu' = [mu EXCEPT !.readers = @ \cup {g}]
    /\ \E orders \in IterationOrders(pathIndex, clientDownloadPathMapping) :
          Goto(g, [pc[g] EXCEPT
                      !.at = "eval",
                      !.want = evalHasPath(Self, pc[g].path,
                                           clientDownloadPathMapping, orders).found])
    /\ UNCHANGED <<torrentFileMap, pathIndex, indexDirty, pathCache, mappingCache, pruned>>
    /\ LockFrame

\* HasPath: hasPathDirect or hasPathWithMapping
EvalHasPath(g) ==
    /\ pc[g].op = "HasPath" /\ pc[g].at = "eval"
    /\ \E orders \in IterationOrders(pathIndex, clientDownloadPathMapping) :
          LET r == evalHasPath(Self, pc[g].path, clientDownloadPathMapping, orders)
          IN /\ mappingCache' = r.caches
             /\ Goto(g, [pc[g] EXCEPT !.result = r.found, !.at = "runlock"])
    /\ UNCHANGED <<torrentFileMap, pathIndex, indexDirty, pathCache, pruned, mu>>
    /\ LockFrame

\* IsUnique, NoInstances, Length, HasPath: t.mu.RUnlock()
RUnlock(g) ==
    /\ pc[g].op \in { "IsUnique", "NoInstances", "Length", "HasPath" }
    /\ pc[g].at = "runlock"
    /\ mu' = [mu EXCEPT !.readers = @ \ {g}]
    /\ Goto(g, IF pc[g].op = "HasPath" THEN [pc[g] EXCEPT !.at = "store"] ELSE IdlePC)
    /\ UNCHANGED <<torrentFileMap, pathIndex, indexDirty, pathCache, mappingCache, pruned>>
    /\ LockFrame

\* HasPath: t.pathCache.Store(path, found)
StoreCache(g) ==
    /\ pc[g].op = "HasPath" /\ pc[g].at = "store"
    /\ pathCache' = MapPut(pathCache, pc[g].path, pc[g].result)
    /\ Goto(g, IdlePC)
    /\ UNCHANGED <<torrentFileMap, pathIndex, indexDirty, mappingCache, pruned, mu>>
    /\ LockFrame

NextLock ==
    \E g \in Goroutines :
        \/ \E h \in LockHashes : LockAdd(g, h)
        \/ AddFile(g)
        \/ \E h \in LockHashes : LockRemove(g, h)
        \/ RemoveFile(g)
        \/ \E p \in LockPaths : LockRemovePath(g, p)
        \/ DeletePath(g)
        \/ MarkDirty(g)
        \/ Rebuild(g)
        \/ Invalidate(g)
        \/ Unlock(g)
        \/ \E h \in LockHashes : RLockQuery(g, "IsUnique", h)
        \/ \E h \in LockHashes : RLockQuery(g, "NoInstances", h)
        \/ QueryFile(g)
        \/ RLockLength(g)
        \/ ReadLength(g)
        \/ \E p \in LockPaths : LoadCache(g, p)
        \/ RLockHasPath(g)
        \/ EvalHasPath(g)
        \/ RUnlock(g)
        \/ StoreCache(g)

SpecLock == InitLock /\ [][NextLock]_vars

\* ------------------------------------------------------------------------
\* HasPath and RemovePath of one path called concurrently, no Add, no Remove
\* ------------------------------------------------------------------------

\* the path the goroutines call HasPath and RemovePath with
RemovedPaths == { <<1, 2>> }

NextStale ==
    \E g \in Goroutines :
        \/ \E p \in RemovedPaths : LockRemovePath(g, p)
        \/ DeletePath(g)
        \/ MarkDirty(g)
        \/ Rebuild(g)
        \/ Invalidate(g)
        \/ Unlock(g)
        \/ \E p \in RemovedPaths : LoadCache(g, p)
        \/ RLockHasPath(g)
        \/ EvalHasPath(g)
        \/ RUnlock(g)
        \/ StoreCache(g)

SpecStale == InitLock /\ [][NextStale]_vars

\* ------------------------------------------------------------------------
\* getOrBuild step by step: the fast path under the manager's read lock, the
\* slow path under its write lock
\* ------------------------------------------------------------------------

\* the loop of hasPathWithMapping over cache.mappedPaths
scanMapped(cache, path) ==
    \E i \in 1..Len(cache.mappedPaths) : Contains(cache.mappedPaths[i], path)

\* a slow path that builds without looking at the map again
doubleCheck_Skipped(caches, key) == FALSE

\* getOrBuild: the second lookup, under the write lock of the manager
doubleCheck(caches, key) == key \in DOMAIN caches

\* HasPath inside t.mu.RLock: hasPathDirect without a mapping; with one, the
\* lookup of getOrBuild under m.mu.RLock, and on a hit the scan of the cache
FastPath(g) ==
    /\ pc[g].op = "HasPath" /\ pc[g].at = "eval"
    /\ LET key == mappingCacheKey(clientDownloadPathMapping)
       IN IF Cardinality(DOMAIN clientDownloadPathMapping) = 0
          THEN Goto(g, [pc[g] EXCEPT !.result = hasPathDirect(Self, pc[g].path),
                                     !.at = "runlock"])
          ELSE IF key \in DOMAIN mappingCache
               THEN Goto(g, [pc[g] EXCEPT !.result = scanMapped(mappingCache[key],
                                                                pc[g].path),
                                          !.at = "runlock"])
               ELSE Goto(g, [pc[g] EXCEPT !.at = "slow"])
    /\ UNCHANGED <<torrentFileMap, pathIndex, indexDirty, pathCache, mappingCache,
                   pruned, mu>>
    /\ LockFrame

\* getOrBuild from m.mu.Lock to the deferred Unlock, and the scan of the cache;
\* built records whether this call has run buildMappedPathCache
SlowPath(g) ==
    /\ pc[g].op = "HasPath" /\ pc[g].at = "slow"
    /\ \E orders \in IterationOrders(pathIndex, clientDownloadPathMapping) :
          LET key == mappingCacheKey(clientDownloadPathMapping)
              hit == doubleCheck(mappingCache, key)
              cache == IF hit THEN mappingCache[key]
                       ELSE buildMappedPathCache(pathIndex, clientDownloadPathMapping,
                                                 orders)
          IN /\ mappingCache' = IF hit THEN mappingCache
                                ELSE MapPut(mappingCache, key, cache)
             /\ Goto(g, [op |-> "HasPath", at |-> "runlock", hash |-> pc[g].hash,
                         path |-> pc[g].path, i |-> pc[g].i,
                         needsRebuild |-> pc[g].needsRebuild,
                         result |-> scanMapped(cache, pc[g].path),
                         want |-> pc[g].want, built |-> ~hit])
    /\ UNCHANGED <<torrentFileMap, pathIndex, indexDirty, pathCache, pruned, mu>>
    /\ LockFrame

NextCache ==
    \E g \in Goroutines :
        \/ \E h \in LockHashes : LockAdd(g, h)
        \/ AddFile(g)
        \/ \E h \in LockHashes : LockRemove(g, h)
        \/ RemoveFile(g)
        \/ \E p \in LockPaths : LockRemovePath(g, p)
        \/ DeletePath(g)
        \/ MarkDirty(g)
        \/ Rebuild(g)
        \/ Invalidate(g)
        \/ Unlock(g)
        \/ \E p \in LockPaths : LoadCache(g, p)
        \/ RLockHasPath(g)
        \/ FastPath(g)
        \/ SlowPath(g)
        \/ RUnlock(g)
        \/ StoreCache(g)

SpecCache == InitLock /\ [][NextCache]_vars

\* ------------------------------------------------------------------------
\* The HardlinkFileMap called by several goroutines: the struct has no mutex
\* ------------------------------------------------------------------------

\* the runtime has not stopped the process
Alive == \A g \in Goroutines : pc[g].at # "fatal"

\* what the state machine of the shared hardlink index leaves alone
RaceFrame ==
    UNCHANGED <<torrentFileMap, pathIndex, indexDirty, pathCache, mappingCache,
                clientDownloadPathMapping, pruned, last, mapVars, cmdVars, mu, fs>>

\* an empty index is shared by the goroutines
InitRace ==
    /\ torrentPathMapping \in HMappings
    /\ declared = <<>>
    /\ mapped = [p \in FilePaths |-> {}]
    /\ fs \in FileSystems
    /\ hardlinkFileMap = EmptyMap
    /\ IdleTFM
    /\ IdleLock
    /\ IdleCmd

\* the goroutine goes on with the next file of the torrent, or returns
NextFile(g, returned) ==
    IF pc[g].i = Len(hlTorrents[pc[g].hash].Files)
    THEN /\ Goto(g, IdlePC)
         /\ tracked' = tracked \cup returned
    ELSE /\ Goto(g, [op |-> pc[g].op, at |-> "stat", hash |-> pc[g].hash,
                     i |-> pc[g].i + 1])
         /\ UNCHANGED tracked

\* AddByTorrent of a downloaded torrent is called (for a torrent that is not
\* downloaded the call returns at once and changes nothing)
CallAddByTorrent(g, h) ==
    /\ Alive
    /\ pc[g] = IdlePC
    /\ hlTorrents[h].Downloaded
    /\ Goto(g, [op |-> "AddByTorrent", at |-> "stat", hash |-> h, i |-> 1])
    /\ UNCHANGED <<hardlinkFileMap, tracked>>
    /\ RaceFrame

\* AddByTorrent: the file is mapped and resolved and its bucket is read
ReadBucket(g) ==
    /\ Alive
    /\ pc[g].op = "AddByTorrent" /\ pc[g].at = "stat"
    /\ \E order \in Orders(DOMAIN torrentPathMapping) :
          LET f == considerPathMapping(torrentPathMapping,
                                       hlTorrents[pc[g].hash].Files[pc[g].i], order)
              li == linkInfoByPath(fs, f)
              exists == li.id \in DOMAIN hardlinkFileMap
          IN IF ~li.ok \/ (exists /\ InSlice(hardlinkFileMap[li.id], f))
             THEN NextFile(g, {pc[g].hash})
             ELSE /\ Goto(g, [op |-> "AddByTorrent", at |-> "write",
                              hash |-> pc[g].hash, i |-> pc[g].i, f |-> f, id |-> li.id,
                              paths |-> IF exists THEN hardlinkFileMap[li.id] ELSE <<>>])
                  /\ UNCHANGED tracked
    /\ UNCHANGED hardlinkFileMap
    /\ RaceFrame

\* AddByTorrent: the bucket read before, with the path appended, is stored
WriteBucket(g) ==
    /\ Alive
    /\ pc[g].op = "AddByTorrent" /\ pc[g].at = "write"
    /\ hardlinkFileMap' = MapPut(hardlinkFileMap, pc[g].id, Append(pc[g].paths, pc[g].f))
    /\ NextFile(g, {pc[g].hash})
    /\ RaceFrame

\* two goroutines write the map at the same time: the runtime stops the
\* process with "concurrent map writes"
ConcurrentMapWrites(g) ==
    /\ Alive
    /\ pc[g].op = "AddByTorrent" /\ pc[g].at = "write"
    /\ \E g2 \in Goroutines \ {g} : pc[g2].op = "AddByTorrent" /\ pc[g2].at = "write"
    /\ Goto(g, [op |-> "AddByTorrent", at |-> "fatal"])
    /\ UNCHANGED <<hardlinkFileMap, tracked>>
    /\ RaceFrame

\* IsTorrentUnique of a downloaded torrent is called
CallIsTorrentUnique(g, h) ==
    /\ Alive
    /\ pc[g] = IdlePC
    /\ hlTorrents[h].Downloaded
    /\ Goto(g, [op |-> "IsTorrentUnique", at |-> "stat", hash |-> h, i |-> 1])
    /\ UNCHANGED <<hardlinkFileMap, tracked>>
    /\ RaceFrame

\* IsTorrentUnique: one iteration of the loop over torrent.Files
CountFile(g) ==
    /\ Alive
    /\ pc[g].op = "IsTorrentUnique" /\ pc[g].at = "stat"
    /\ \E order \in Orders(DOMAIN torrentPathMapping) :
          LET c == countLinks(hardlinkFileMap, fs, torrentPathMapping,
                              hlTorrents[pc[g].hash].Files[pc[g].i], order)
          IN IF ~c.ok \/ c.inmap > 1
             THEN Goto(g, IdlePC) /\ UNCHANGED tracked
             ELSE NextFile(g, {})
    /\ UNCHANGED hardlinkFileMap
    /\ RaceFrame

NextRace ==
    \E g \in Goroutines :
        \/ \E h \in HHashes : CallAddByTorrent(g, h)
        \/ ReadBucket(g)
        \/ WriteBucket(g)
        \/ ConcurrentMapWrites(g)
        \/ \E h \in HHashes : CallIsTorrentUnique(g, h)
        \/ CountFile(g)

SpecRace == InitRace /\ [][NextRace]_vars

\* ------------------------------------------------------------------------
\* The orphan command: configuration, index, file workers, folders
\* ------------------------------------------------------------------------

\* const maxWorkers and const batchSize of the scan, scaled down
maxWorkers == 2

batchSize == 2

\* a value of type any that is a string, and one that is not
AnyString(str) == [isString |-> TRUE, s |-> str]

AnyOther == [isString |-> FALSE, s |-> <<>>]

\* the download_path_mapping settings: absent, not a map, a map of strings
\* ("a" -> "b"), a map with a value that is not a string
ClientConfigs ==
    { NoSetting,
      [present |-> TRUE, isMap |-> FALSE, tmp |-> EmptyMap],
      [present |-> TRUE, isMap |-> TRUE, tmp |-> MapPut(EmptyMap, <<1>>, AnyString(<<2>>))],
      [present |-> TRUE, isMap |-> TRUE,
       tmp |-> MapPut(MapPut(EmptyMap, <<1>>, AnyString(<<2>>)), <<2>>, AnyOther)] }

\* the range loop of getClientDownloadPathMapping that returns what it has
\* copied so far when it meets a value that is not a string
RECURSIVE copyRules_KeepPartial(_, _, _, _)
copyRules_KeepPartial(tmp, order, i, acc) ==
    IF i > Len(order) THEN [mapping |-> acc, err |-> FALSE]
    ELSE IF tmp[order[i]].isString
         THEN copyRules_KeepPartial(tmp, order, i + 1, MapPut(acc, order[i], tmp[order[i]].s))
         ELSE [mapping |-> acc, err |-> TRUE]

\* the range loop of getClientDownloadPathMapping over tmp, from the i-th key
\* of the iteration on; a nil map is the empty map
RECURSIVE copyRules(_, _, _, _)
copyRules(tmp, order, i, acc) ==
    IF i > Len(order) THEN [mapping |-> acc, err |-> FALSE]
    ELSE IF tmp[order[i]].isString
         THEN copyRules(tmp, order, i + 1, MapPut(acc, order[i], tmp[order[i]].s))
         ELSE [mapping |-> NoMapping, err |-> TRUE]

getClientDownloadPathMapping(cfg, order) ==
    IF ~cfg.present THEN [mapping |-> NoMapping, err |-> FALSE]
    ELSE IF ~cfg.isMap THEN [mapping |-> NoMapping, err |-> TRUE]
    ELSE copyRules(cfg.tmp, order, 1, EmptyMap)

\* the torrents the client returns: none, or one torrent with file "a/a/b"
ClientTorrents ==
    { <<>>, << [Hash |-> 1, Files |-> << <<1, SlashByte, 1, SlashByte, 2>> >>] >> }

\* the checks of the per-file function without the grace period
classifyFile_NoGrace(found, isIgnored, statErr, isRecent, dryRun) ==
    IF found THEN "tracked"
    ELSE IF isIgnored THEN "ignored"
    ELSE IF statErr THEN "statErr"
    ELSE IF dryRun THEN "dryRun"
    ELSE "remove"

\* the checks of the per-file function without the test of flagDryRun
classifyFile_NoDryRun(found, isIgnored, statErr, isRecent, dryRun) ==
    IF found THEN "tracked"
    ELSE IF isIgnored THEN "ignored"
    ELSE IF statErr THEN "statErr"
    ELSE IF isRecent THEN "recent"
    ELSE "remove"

\* the checks of the per-file function, in the order of the code: what the
\* function does with the file
classifyFile(found, isIgnored, statErr, isRecent, dryRun) ==
    IF found THEN "tracked"
    ELSE IF isIgnored THEN "ignored"
    ELSE IF statErr THEN "statErr"
    ELSE IF isRecent THEN "recent"
    ELSE IF dryRun THEN "dryRun"
    ELSE "remove"

\* paths.IsDirEmpty: no path is left below the folder
isDirEmpty(folder, present) ==
    \A q \in present : ~HasPrefix(q, folder \o <<SlashByte>>)

\* the checks of the folder loop that take a folder that is not empty for empty
checkFolder_IgnoreNotEmpty(emptyErr, empty, dryRun) ==
    IF emptyErr THEN "emptyErr"
    ELSE IF dryRun THEN "dryRun"
    ELSE "remove"

\* the checks of the folder loop on a candidate folder
checkFolder(emptyErr, empty, dryRun) ==
    IF emptyErr THEN "emptyErr"
    ELSE IF ~empty THEN "notEmpty"
    ELSE IF dryRun THEN "dryRun"
    ELSE "remove"

\* a removal that is counted as done though the OS denied it
afterRemove_CountDenied(r, p, denied, isFile) ==
    IF isFile
    THEN [r EXCEPT !.removedLocalFiles = @ + 1, !.fields = @ \cup {p}]
    ELSE [r EXCEPT !.removedLocalFolders = @ + 1, !.fields = @ \cup {p}]

\* the counters and fields after os.Remove (denied: it returned an error), or
\* after the removal a dry run reports
afterRemove(r, p, denied, isFile) ==
    IF denied THEN [r EXCEPT !.removeFailures = @ + 1]
    ELSE IF isFile
    THEN [r EXCEPT !.removedLocalFiles = @ + 1, !.fields = @ \cup {p}]
    ELSE [r EXCEPT !.removedLocalFolders = @ + 1, !.fields = @ \cup {p}]

\* a send on workerSem that never blocks
canSend_Unbounded(sem) == TRUE

\* workerSem <- struct{}{} proceeds when the channel has room
canSend(sem) == sem < maxWorkers

\* the test of the batch without the test for the last item
batchFull_OnlyFull(i, n) == i = batchSize

\* processInBatches: i == batchSize || i == len(items)
batchFull(i, n) == i = batchSize \/ i = n

\* a per-file function without the deferred wg.Done
wgDone_Missing(counter) == counter

\* wg.Done
wgDone(counter) == counter - 1

\* wg.Wait that returns at once
waitDone_NoWait(counter) == TRUE

\* wg.Wait returns when the counter is zero
waitDone(counter) == counter = 0

\* the range loop over localFolderPaths in the order of the iteration, from
\* the i-th folder on: the struct, the candidates, the ignored count
RECURSIVE rangeFolders(_, _, _, _, _, _, _)
rangeFolders(t, mapping, orders, order, i, acc, n) ==
    IF i > Len(order) THEN [t |-> t, orphans |-> acc, ignoredLocalFolders |-> n]
    ELSE LET r == HasPath(t, order[i], mapping, orders)
         IN IF r.found THEN rangeFolders(r.t, mapping, orders, order, i + 1, acc, n)
            ELSE IF order[i] \in ignored
                 THEN rangeFolders(r.t, mapping, orders, order, i + 1, acc, n + 1)
                 ELSE rangeFolders(r.t, mapping, orders, order, i + 1,
                                   Append(acc, order[i]), n)

\* the candidates left in any order
sortedByLen_Unsorted(slice) == Orders({ slice[i] : i \in 1..Len(slice) })

\* sort.Slice with less = len(a) > len(b): the orders it may leave the slice in
sortedByLen(slice) ==
    { o \in Orders({ slice[i] : i \in 1..Len(slice) }) :
          \A i, j \in 1..Len(o) : i < j => Len(o[i]) >= Len(o[j]) }

\* the number of directories a path lies below
pathDepth(p) == Cardinality({ i \in 1..Len(p) : p[i] = SlashByte })

\* what the orphan command leaves alone
ScanFrame == UNCHANGED <<tracked, pruned, last, mapVars, lockVars, hfmVars, keyVars,
                         ptpVars, trackerCheck, flagDryRun, clientConfig, ignored, recent>>

TfmSame == UNCHANGED <<torrentFileMap, pathIndex, indexDirty, pathCache, mappingCache>>

\* the command starts: the flag, the configuration, the ignore patterns and
\* the modification times are given, every local path is present
InitScan ==
    /\ flagDryRun \in BOOLEAN
    /\ clientConfig \in ClientConfigs
    /\ ignored \in { {}, { <<1, SlashByte, 2>> }, { <<2, 2, 2, 2>> } }
    /\ recent \in { {}, { <<2, 2, 2, 2, SlashByte, 1>> } }
    /\ scanPc = [at |-> "config", i |-> 0, batch |-> <<>>, j |-> 0, k |-> 0]
    /\ orphanFolderPaths = <<>>
    /\ worker = [f \in localFilePaths |-> "none"]
    /\ result = [p \in localFilePaths \cup localFolderPaths |-> "none"]
    /\ localFs = localFilePaths \cup localFolderPaths
    /\ wg = 0
    /\ workerSem = 0
    /\ report = NoReport
    /\ IdleTFM
    /\ IdleMap
    /\ IdleLock
    /\ IdleHFM
    /\ IdleKey
    /\ IdlePTP
    /\ IdleTracker

\* Run: the mapping is read from the configuration; log.Fatal ends the process
LoadMapping ==
    /\ scanPc.at = "config"
    /\ \E order \in Orders(DOMAIN clientConfig.tmp) :
           LET r == getClientDownloadPathMapping(clientConfig, order)
           IN /\ clientDownloadPathMapping' = r.mapping
              /\ scanPc' = [scanPc EXCEPT !.at = IF r.err THEN "fatal" ELSE "index"]
    /\ TfmSame
    /\ UNCHANGED <<orphanFolderPaths, worker, result, localFs, wg, workerSem, report>>
    /\ ScanFrame

\* Run: the torrents are retrieved and torrentfilemap.New builds the index
BuildIndex ==
    /\ scanPc.at = "index"
    /\ \E ts \in ClientTorrents : Becomes(New(ts))
    /\ scanPc' = [scanPc EXCEPT !.at = "batch"]
    /\ UNCHANGED <<clientDownloadPathMapping, orphanFolderPaths, worker, result, localFs,
                   wg, workerSem, report>>
    /\ ScanFrame

\* processInBatches: one iteration of the range loop over items, up to the test
\* of i (which is never reset); the items are the keys of worker, and the
\* function returns when the range is over
Accumulate(p) ==
    /\ scanPc.at = "batch"
    /\ worker[p] = "none"
    /\ \A n \in 1..Len(scanPc.batch) : scanPc.batch[n] # p
    /\ scanPc' = [scanPc EXCEPT
                      !.batch = Append(@, p),
                      !.i = @ + 1,
                      !.j = 1,
                      !.at = IF batchFull(scanPc.i + 1, Cardinality(DOMAIN worker))
                             THEN "dispatch"
                             ELSE IF scanPc.i + 1 = Cardinality(DOMAIN worker)
                                  THEN "wait" ELSE "batch"]
    /\ TfmSame
    /\ UNCHANGED <<clientDownloadPathMapping, orphanFolderPaths, worker, result, localFs,
                   wg, workerSem, report>>
    /\ ScanFrame

\* processInBatches: wg.Add(1), the send on workerSem and the go statement for
\* one item of the batch; after the last item the batch is emptied
Dispatch ==
    /\ scanPc.at = "dispatch"
    /\ canSend(workerSem)
    /\ wg' = wg + 1
    /\ workerSem' = workerSem + 1
    /\ worker' = [worker EXCEPT ![scanPc.batch[scanPc.j]] = "classify"]
    /\ scanPc' =
           IF scanPc.j < Len(scanPc.batch) THEN [scanPc EXCEPT !.j = @ + 1]
           ELSE [scanPc EXCEPT !.batch = <<>>, !.j = 0,
                               !.at = IF scanPc.i = Cardinality(DOMAIN worker)
                                      THEN "wait" ELSE "batch"]
    /\ TfmSame
    /\ UNCHANGED <<clientDownloadPathMapping, orphanFolderPaths, result, localFs, report>>
    /\ ScanFrame

\* processFn returns: the deferred wg.Done
Return(p) ==
    /\ wg' = wgDone(wg)
    /\ worker' = [worker EXCEPT ![p] = "release"]

\* the per-file function up to the removal: HasPath, IsIgnored, os.Stat, the
\* grace period, the dry run
ClassifyFile(p) ==
    /\ worker[p] = "classify"
    /\ \E orders \in IterationOrders(pathIndex, clientDownloadPathMapping) :
       \E statErr \in BOOLEAN :
           LET r == HasPath(Self, p, clientDownloadPathMapping, orders)
               c == classifyFile(r.found, p \in ignored, statErr, p \in recent, flagDryRun)
           IN /\ Becomes(r.t)
              /\ result' = [result EXCEPT ![p] = IF c = "remove" THEN @ ELSE c]
              /\ report' = IF c = "ignored"
                           THEN [report EXCEPT !.ignoredLocalFiles = @ + 1]
                           ELSE IF c = "dryRun" THEN afterRemove(report, p, FALSE, TRUE)
                           ELSE report
              /\ IF c = "remove"
                 THEN /\ worker' = [worker EXCEPT ![p] = "remove"]
                      /\ UNCHANGED wg
                 ELSE Return(p)
    /\ UNCHANGED <<clientDownloadPathMapping, scanPc, orphanFolderPaths, localFs, workerSem>>
    /\ ScanFrame

\* the per-file function: os.Remove and what follows it
RemoveOrphanFile(p) ==
    /\ worker[p] = "remove"
    /\ \E denied \in BOOLEAN :
           /\ localFs' = IF denied THEN localFs ELSE localFs \ {p}
           /\ result' = [result EXCEPT ![p] = IF denied THEN "failed" ELSE "removed"]
           /\ report' = afterRemove(report, p, denied, TRUE)
    /\ Return(p)
    /\ TfmSame
    /\ UNCHANGED <<clientDownloadPathMapping, scanPc, orphanFolderPaths, workerSem>>
    /\ ScanFrame

\* the goroutine's deferred receive from workerSem
Release(p) ==
    /\ worker[p] = "release"
    /\ workerSem' = workerSem - 1
    /\ worker' = [worker EXCEPT ![p] = "exited"]
    /\ TfmSame
    /\ UNCHANGED <<clientDownloadPathMapping, scanPc, orphanFolderPaths, result, localFs,
                   wg, report>>
    /\ ScanFrame

\* wg.Wait, then the range loop over localFolderPaths and sort.Slice
RangeFolders ==
    /\ scanPc.at = "wait"
    /\ waitDone(wg)
    /\ \E orders \in IterationOrders(pathIndex, clientDownloadPathMapping) :
       \E order \in Orders(localFolderPaths) :
           LET r == rangeFolders(Self, clientDownloadPathMapping, orders, order, 1, <<>>, 0)
           IN /\ Becomes(r.t)
              /\ orphanFolderPaths' \in sortedByLen(r.orphans)
              /\ report' = [report EXCEPT !.ignoredLocalFolders = r.ignoredLocalFolders]
              /\ result' = [p \in DOMAIN result |->
                               IF p \in localFilePaths THEN result[p]
                               ELSE IF \E n \in 1..Len(r.orphans) : r.orphans[n] = p
                                    THEN "none"
                                    ELSE IF p \in ignored /\ ~r.t.pathCache[p]
                                         THEN "ignored" ELSE "tracked"]
              /\ scanPc' = [scanPc EXCEPT !.k = 1,
                                !.at = IF r.orphans = <<>> THEN "done" ELSE "checkFolder"]
    /\ UNCHANGED <<clientDownloadPathMapping, worker, localFs, wg, workerSem>>
    /\ ScanFrame

\* the folder loop goes on with the next candidate, or ends
NextFolder ==
    IF scanPc.k < Len(orphanFolderPaths)
    THEN [scanPc EXCEPT !.k = @ + 1, !.at = "checkFolder"]
    ELSE [scanPc EXCEPT !.at = "done"]

\* the folder loop: paths.IsDirEmpty and the dry run
CheckFolder ==
    /\ scanPc.at = "checkFolder"
    /\ \E emptyErr \in BOOLEAN :
           LET p == orphanFolderPaths[scanPc.k]
               c == checkFolder(emptyErr, isDirEmpty(p, localFs), flagDryRun)
           IN /\ result' = [result EXCEPT ![p] = IF c = "remove" THEN "checked" ELSE c]
              /\ report' = IF c = "dryRun" THEN afterRemove(report, p, FALSE, FALSE)
                           ELSE report
              /\ scanPc' = IF c = "remove" THEN [scanPc EXCEPT !.at = "removeFolder"]
                           ELSE NextFolder
    /\ TfmSame
    /\ UNCHANGED <<clientDownloadPathMapping, orphanFolderPaths, worker, localFs, wg,
                   workerSem>>
    /\ ScanFrame

\* the folder loop: os.Remove and what follows it
RemoveOrphanFolder ==
    /\ scanPc.at = "removeFolder"
    /\ \E denied \in BOOLEAN :
           LET p == orphanFolderPaths[scanPc.k]
           IN /\ localFs' = IF denied THEN localFs ELSE localFs \ {p}
              /\ result' = [result EXCEPT ![p] = IF denied THEN "failed" ELSE "removed"]
              /\ report' = afterRemove(report, p, denied, FALSE)
    /\ scanPc' = NextFolder
    /\ TfmSame
    /\ UNCHANGED <<clientDownloadPathMapping, orphanFolderPaths, worker, wg, workerSem>>
    /\ ScanFrame

NextScan ==
    \/ LoadMapping
    \/ BuildIndex
    \/ \E p \in localFilePaths : Accumulate(p)
    \/ Dispatch
    \/ \E p \in localFilePaths : ClassifyFile(p)
    \/ \E p \in localFilePaths : RemoveOrphanFile(p)
    \/ \E p \in localFilePaths : Release(p)
    \/ RangeFolders
    \/ CheckFolder
    \/ RemoveOrphanFolder

SpecScan == InitScan /\ [][NextScan]_vars

\* ------------------------------------------------------------------------
\* processInBatches with maps of every size and any per-file function
\* ------------------------------------------------------------------------

\* the largest map processInBatches is called with
MaxItems == 4

\* a map of n items: the keys are "1" .. "n"
ItemsOf(n) == { <<k>> : k \in 1..n }

\* processInBatches is called; ranging over an empty map it returns at once
InitBatch ==
    /\ \E n \in 0..MaxItems :
          /\ worker = [f \in ItemsOf(n) |-> "none"]
          /\ scanPc = [at |-> IF n = 0 THEN "wait" ELSE "batch",
                       i |-> 0, batch |-> <<>>, j |-> 0, k |-> 0]
    /\ flagDryRun = FALSE
    /\ clientConfig = NoSetting
    /\ ignored = {}
    /\ recent = {}
    /\ orphanFolderPaths = <<>>
    /\ result = [p \in localFilePaths \cup localFolderPaths |-> "none"]
    /\ localFs = {}
    /\ wg = 0
    /\ workerSem = 0
    /\ report = NoReport
    /\ IdleTFM
    /\ IdleMap
    /\ IdleLock
    /\ IdleHFM
    /\ IdleKey
    /\ IdlePTP
    /\ IdleTracker

\* processFn runs and returns, with its deferred wg.Done
ProcessFn(p) ==
    /\ worker[p] = "classify"
    /\ Return(p)
    /\ TfmSame
    /\ UNCHANGED <<clientDownloadPathMapping, scanPc, orphanFolderPaths, result, localFs,
                   workerSem, report>>
    /\ ScanFrame

AccumulateItem == \E p \in DOMAIN worker : Accumulate(p)

NextBatch ==
    \/ AccumulateItem
    \/ Dispatch
    \/ \E p \in DOMAIN worker : ProcessFn(p)
    \/ \E p \in DOMAIN worker : Release(p)

SpecBatch == InitBatch /\ [][NextBatch]_vars

\* the Go scheduler runs every goroutine that can take a step: the dispatcher
\* and each worker
FairBatch ==
    /\ SpecBatch
    /\ WF_vars(AccumulateItem)
    /\ WF_vars(Dispatch)
    /\ \A p \in ItemsOf(MaxItems) :
          /\ WF_vars(p \in DOMAIN worker /\ ProcessFn(p))
          /\ WF_vars(p \in DOMAIN worker /\ Release(p))

\* ------------------------------------------------------------------------
\* The PTP tracker API: IsUnregistered and its cache
\* ------------------------------------------------------------------------

\* the failed API requests a behaviour may hold
MaxApiFailures == 2

\* strings.ToUpper of one byte and of a string
upperByte(c) == IF c >= 97 /\ c <= 122 THEN c - 32 ELSE c

ToUpper(str) == [n \in 1..Len(str) |-> upperByte(str[n])]

\* torrent.Hash of the calls: "aa", "Aa", "bb"
PtpHashes == { <<97, 97>>, <<65, 97>>, <<98, 98>> }

\* the lists the API may answer with: empty, "AA", "Aa" and "Bb"
ApiLists == { {}, { <<65, 65>> }, { <<65, 97>>, <<66, 98>> } }

\* every call asks the API
needsFetch_Always(fetched) == TRUE

\* if !c.unregisteredFetched
needsFetch(fetched) == ~fetched

\* a mutex that excludes nobody
canLockMux_NoExclusion(calls) == TRUE

\* unregisteredCacheMux: Lock and RLock proceed when no goroutine holds the
\* write lock, which a goroutine holds while its request is in flight
canLockMux(calls) == \A g \in DOMAIN calls : calls[g].at # "fetch"

\* fetchUnregisteredTorrents after a successful request: the keys of the new map
cacheOf(list) == { ToUpper(h) : h \in list }

PtpFrame == UNCHANGED <<tfmVars, mapVars, lockVars, hfmVars, keyVars, scanVars, trackerCheck>>

InitPTP ==
    /\ unregisteredCache = {}
    /\ unregisteredFetched = FALSE
    /\ apiUnregistered \in ApiLists
    /\ apiCalls = [ok |-> 0, failed |-> 0, refetched |-> FALSE]
    /\ fetchedList = {}
    /\ ptpCall = [g \in Goroutines |-> IdlePtpCall]
    /\ IdleTFM
    /\ IdleMap
    /\ IdleLock
    /\ IdleHFM
    /\ IdleKey
    /\ IdleScan
    /\ IdleTracker

\* a goroutine calls IsUnregistered and waits for unregisteredCacheMux
CallIsUnregistered(g, h) ==
    /\ ptpCall[g].at \in { "idle", "returned" }
    /\ ptpCall' = [ptpCall EXCEPT ![g] = [at |-> "lock", hash |-> h, err |-> FALSE,
                                          isUnregistered |-> FALSE]]
    /\ UNCHANGED <<unregisteredCache, unregisteredFetched, apiUnregistered, apiCalls,
                   fetchedList>>
    /\ PtpFrame

\* IsUnregistered: unregisteredCacheMux.Lock() and the test of the flag; the
\* goroutine that has to fetch keeps the mutex while the request is in flight
LockMux(g) ==
    /\ ptpCall[g].at = "lock"
    /\ canLockMux(ptpCall)
    /\ ptpCall' = [ptpCall EXCEPT ![g].at = IF needsFetch(unregisteredFetched)
                                           THEN "fetch" ELSE "read"]
    /\ UNCHANGED <<unregisteredCache, unregisteredFetched, apiUnregistered, apiCalls,
                   fetchedList>>
    /\ PtpFrame

\* fetchUnregisteredTorrents returns, the request having succeeded or failed,
\* and the mutex is unlocked
Fetch(g) ==
    /\ ptpCall[g].at = "fetch"
    /\ \E ok \in BOOLEAN :
           IF ok
           THEN /\ unregisteredCache' = cacheOf(apiUnregistered)
                /\ unregisteredFetched' = TRUE
                /\ fetchedList' = apiUnregistered
                /\ apiCalls' = [apiCalls EXCEPT !.ok = Min(@ + 1, 2),
                                                !.refetched = @ \/ unregisteredFetched]
                /\ ptpCall' = [ptpCall EXCEPT ![g].at = "read"]
           ELSE /\ apiCalls.failed < MaxApiFailures
                /\ apiCalls' = [apiCalls EXCEPT !.failed = @ + 1,
                                                !.refetched = @ \/ unregisteredFetched]
                /\ ptpCall' = [ptpCall EXCEPT ![g].at = "returned", ![g].err = TRUE]
                /\ UNCHANGED <<unregisteredCache, unregisteredFetched, fetchedList>>
    /\ UNCHANGED apiUnregistered
    /\ PtpFrame

\* IsUnregistered from RLock to the return
ReadCache(g) ==
    /\ ptpCall[g].at = "read"
    /\ canLockMux(ptpCall)
    /\ ptpCall' = [ptpCall EXCEPT
                       ![g].at = "returned",
                       ![g].isUnregistered = ToUpper(ptpCall[g].hash) \in unregisteredCache]
    /\ UNCHANGED <<unregisteredCache, unregisteredFetched, apiUnregistered, apiCalls,
                   fetchedList>>
    /\ PtpFrame

\* the tracker's list changes
ApiChange(list) ==
    /\ list # apiUnregistered
    /\ apiUnregistered' = list
    /\ UNCHANGED <<unregisteredCache, unregisteredFetched, apiCalls, fetchedList, ptpCall>>
    /\ PtpFrame

NextPTP ==
    \/ \E g \in Goroutines : \E h \in PtpHashes : CallIsUnregistered(g, h)
    \/ \E g \in Goroutines : LockMux(g)
    \/ \E g \in Goroutines : Fetch(g)
    \/ \E g \in Goroutines : ReadCache(g)
    \/ \E list \in ApiLists : ApiChange(list)

SpecPTP == InitPTP /\ [][NextPTP]_vars

\* ------------------------------------------------------------------------
\* config.Torrent: IsTrackerDown and IsUnregistered
\* ------------------------------------------------------------------------

\* strings.ToLower of one byte and of a string
lowerByte(c) == IF c >= 65 /\ c <= 90 THEN c + 32 ELSE c

ToLower(str) == [n \in 1..Len(str) |-> lowerByte(str[n])]

\* the status messages of the tracker: "", "d", "D", "u", "du", "w"
TrackerStatuses == { <<>>, <<100>>, <<68>>, <<117>>, <<100, 117>>, <<119>> }

\* the fallback patterns: "d" says the tracker is down, "u" that the torrent
\* is unregistered
trackerDownStatuses == << <<100>> >>

unregisteredStatuses == << <<117>> >>

\* the tracker error configurations: the two pattern lists (empty: fall back),
\* the ignored statuses of the torrent's tracker (none, "U", "D"), and whether
\* StringSliceContains finds the tracker in IgnoredTrackers
TrackerErrorConfigs ==
    [TrackerDownStatuses : { <<>>, << <<119>> >> },
     UnregisteredStatuses : { <<>>, << <<100>> >> },
     TrackerIgnoredStatuses : { <<>>, << <<85>> >>, << <<68>> >> },
     ignoredTracker : BOOLEAN]

\* tracker.Get and the answer of the tracker's IsUnregistered
TrackerApis == { "none", "err", "registered", "unregistered" }

\* strings.Contains(status, v) for some v of the slice
matchesPattern(status, patterns) ==
    \E n \in 1..Len(patterns) : Contains(status, patterns[n])

\* the loop over TrackerIgnoredStatuses[t.TrackerName]
matchesIgnored(t) ==
    matchesPattern(ToLower(t.TrackerStatus),
                   [n \in 1..Len(t.cfg.TrackerIgnoredStatuses) |->
                        ToLower(t.cfg.TrackerIgnoredStatuses[n])])

\* Torrent.IsTrackerDown
IsTrackerDown(t) ==
    IF t.TrackerStatus = <<>> THEN FALSE
    ELSE IF matchesIgnored(t) THEN FALSE
    ELSE IF t.cfg.ignoredTracker THEN FALSE
    ELSE matchesPattern(ToLower(t.TrackerStatus),
                        IF Len(t.cfg.TrackerDownStatuses) = 0 THEN trackerDownStatuses
                        ELSE t.cfg.TrackerDownStatuses)

\* the answer of IsUnregistered: the result, whether the unregistered patterns
\* were looked at, whether the tracker API was called
Answer(ur, usedPatterns, usedApi) ==
    [result |-> ur, patterns |-> usedPatterns, api |-> usedApi]

\* IsUnregistered from the test of the empty status on
unregisteredByStatus(t) ==
    IF t.TrackerStatus = <<>> THEN Answer(FALSE, FALSE, FALSE)
    ELSE IF t.cfg.ignoredTracker THEN Answer(FALSE, FALSE, FALSE)
    ELSE IF matchesIgnored(t) THEN Answer(FALSE, FALSE, FALSE)
    ELSE IF matchesPattern(ToLower(t.TrackerStatus),
                           IF Len(t.cfg.UnregisteredStatuses) = 0 THEN unregisteredStatuses
                           ELSE t.cfg.UnregisteredStatuses)
         THEN Answer(TRUE, TRUE, FALSE)
    ELSE IF t.api = "none" THEN Answer(FALSE, TRUE, FALSE)
    ELSE Answer(t.api = "unregistered", TRUE, TRUE)

\* IsUnregistered without the call of IsTrackerDown
IsUnregistered_NoDownCheck(t) == unregisteredByStatus(t)

\* Torrent.IsUnregistered
IsUnregistered(t) ==
    IF IsTrackerDown(t) THEN Answer(FALSE, FALSE, FALSE)
    ELSE unregisteredByStatus(t)

\* what the calls on a torrent leave alone
TrackerFrame == UNCHANGED <<tfmVars, mapVars, lockVars, hfmVars, keyVars, scanVars, ptpVars>>

\* a torrent with its tracker status, the configuration, the tracker's API
InitTracker ==
    /\ \E status \in TrackerStatuses : \E cfg \in TrackerErrorConfigs : \E api \in TrackerApis :
          trackerCheck = [op |-> "new", TrackerStatus |-> status, cfg |-> cfg, api |-> api,
                          down |-> FALSE, answer |-> Answer(FALSE, FALSE, FALSE)]
    /\ IdleTFM
    /\ IdleMap
    /\ IdleLock
    /\ IdleHFM
    /\ IdleKey
    /\ IdleScan
    /\ IdlePTP

CallIsTrackerDown ==
    /\ trackerCheck' = [trackerCheck EXCEPT !.op = "IsTrackerDown",
                                            !.down = IsTrackerDown(trackerCheck),
                                            !.answer = Answer(FALSE, FALSE, FALSE)]
    /\ TrackerFrame

CallTorrentIsUnregistered ==
    /\ trackerCheck' = [trackerCheck EXCEPT !.op = "IsUnregistered",
                                            !.down = IsTrackerDown(trackerCheck),
                                            !.answer = IsUnregistered(trackerCheck)]
    /\ TrackerFrame

\* the client reports another status for the torrent's tracker
TrackerStatusChange(status) ==
    /\ status # trackerCheck.TrackerStatus
    /\ trackerCheck' = [trackerCheck EXCEPT !.op = "new", !.TrackerStatus = status,
                                            !.down = FALSE,
                                            !.answer = Answer(FALSE, FALSE, FALSE)]
    /\ TrackerFrame

NextTracker ==
    \/ CallIsTrackerDown
    \/ CallTorrentIsUnregistered
    \/ \E status \in TrackerStatuses : TrackerStatusChange(status)

SpecTracker == InitTracker /\ [][NextTracker]_vars

\* ------------------------------------------------------------------------
\* HasPath called with a mapping table that differs from call to call
\* ------------------------------------------------------------------------

\* the tables the calls pass: none, and one rule
CallMappings == { NoMapping, OneRule }

InitCross ==
    /\ InitTFM
    /\ clientDownloadPathMapping = NoMapping
    /\ IdleMap
    /\ IdleLock
    /\ IdleHFM
    /\ IdleCmd

\* one call of HasPath; clientDownloadPathMapping is the table it was passed,
\* flag the result
DoHasPathWith(p, mapping) ==
    \E orders \in IterationOrders(pathIndex, mapping) :
        LET r == HasPath(Self, p, mapping, orders)
        IN /\ Becomes(r.t)
           /\ clientDownloadPathMapping' = mapping
           /\ last' = [op |-> "HasPath", hash |-> 0, path |-> p, flag |-> r.found]
           /\ UNCHANGED <<tracked, pruned, mapVars, cmdVars, lockVars, hfmVars>>

NextCross == \E p \in QueryPaths : \E mapping \in CallMappings : DoHasPathWith(p, mapping)

SpecCross == InitCross /\ [][NextCross]_vars

\* ------------------------------------------------------------------------
\* Specification of mappingCacheKey
\* ------------------------------------------------------------------------

\* the download_path_mapping tables of up to three rules
KeyTables ==
    UNION { [K -> { <<1>>, <<2>> }] : K \in SUBSET { <<1>>, <<2>>, <<1, 2>> } }

\* the number of cached tables at which one more table is still admitted
KeyCacheSizes == { 0, 1 }

InitKey ==
    /\ keyCache = EmptyMap
    /\ IdleScan
    /\ IdlePTP
    /\ IdleTracker
    /\ IdleTFM
    /\ IdleMap
    /\ IdleLock
    /\ IdleHFM

\* getOrBuild looks the table up under its key: a miss stores a new entry, a
\* hit returns the entry (reused: it was hit by a call that iterated the map
\* in another order than the call that built it)
DoMappingCacheKey(mapping) ==
    \E order \in Orders(DOMAIN mapping) :
        LET key == mappingCacheKeyFrom(mapping, order)
        IN /\ IF key \in DOMAIN keyCache
              THEN keyCache' = [keyCache EXCEPT ![key].reused =
                                    @ \/ order # keyCache[key].order]
              ELSE /\ Cardinality(DOMAIN keyCache) \in KeyCacheSizes
                   /\ keyCache' = MapPut(keyCache, key,
                                         [mapping |-> mapping, order |-> order,
                                          reused |-> FALSE])
           /\ UNCHANGED <<tfmVars, mapVars, lockVars, hfmVars, scanVars, ptpVars,
                          trackerCheck>>

NextKey == \E mapping \in KeyTables : DoMappingCacheKey(mapping)

SpecKey == InitKey /\ [][NextKey]_vars

\* ------------------------------------------------------------------------
\* Specification of considerPathMapping
\* ------------------------------------------------------------------------

\* hardlinkfilemap.New stores the mapping table read from the configuration
InitMap ==
    /\ torrentPathMapping \in MapTables
    /\ declared \in Orders(DOMAIN torrentPathMapping)
    /\ mapped = [p \in FilePaths |-> {}]
    /\ IdleTFM
    /\ IdleLock
    /\ IdleCmd
    /\ IdleHFM

\* one call, the map iterated in some order
DoConsiderPathMapping(p) ==
    \E order \in Orders(DOMAIN torrentPathMapping) :
        /\ mapped' = [mapped EXCEPT ![p] =
                          @ \cup { considerPathMapping(torrentPathMapping, p, order) }]
        /\ UNCHANGED <<torrentPathMapping, declared, tfmVars, lockVars, hfmVars, cmdVars>>

NextMap == \E p \in FilePaths : DoConsiderPathMapping(p)

SpecMap == InitMap /\ [][NextMap]_vars

\* ------------------------------------------------------------------------
\* Specification of the TorrentFileMap
\* ------------------------------------------------------------------------

Init == InitTFM /\ IdleMap /\ IdleLock /\ IdleHFM /\ IdleCmd

Next ==
    \/ \E h \in Hashes : DoAdd(h)
    \/ \E h \in Hashes : DoRemove(h)
    \/ \E p \in QueryPaths \cup FilePaths : DoRemovePath(p)
    \/ \E p \in QueryPaths : DoHasPath(p)

Spec == Init /\ [][Next]_vars

\* ------------------------------------------------------------------------
\* Properties
\* ------------------------------------------------------------------------

\* the results HasPath may return (one per iteration order of the mapping)
Outcomes(t, p, mapping) ==
    { HasPath(t, p, mapping, orders).found : orders \in IterationOrders(t.pathIndex, mapping) }

\* the struct with the per-path result cache cleared
Uncached(t) == [t EXCEPT !.pathCache = EmptyMap]

\* the struct with both caches cleared
Cold(t) == [t EXCEPT !.pathCache = EmptyMap, !.mappingCache = EmptyMap]

Keys == DOMAIN torrentFileMap

\* C1 (as claimed): whatever HasPath returns for a path is what an evaluation
\* with an empty per-path cache returns on the current index.
C1_CachedResultIsFresh ==
    \A p \in QueryPaths :
        Outcomes(Self, p, clientDownloadPathMapping)
            \subseteq Outcomes(Uncached(Self), p, clientDownloadPathMapping)

C3_FirstDeclaredRule ==
    \A p \in FilePaths :
        mapped[p] \subseteq { considerPathMapping(torrentPathMapping, p, declared) }

\* C4 (as claimed): with a mapping, HasPath evaluated from scratch has one
\* result: whether the path is contained in some indexed path transformed by
\* the first matching rule (in some declaration order of the rules).
C4_MappedContainment ==
    clientDownloadPathMapping # NoMapping =>
        \E decl \in Orders(DOMAIN clientDownloadPathMapping) :
            \A p \in QueryPaths :
                Outcomes(Cold(Self), p, clientDownloadPathMapping)
                    = { \E q \in Keys :
                          Contains(considerPathMapping(clientDownloadPathMapping, q, decl), p) }

\* C5 (as claimed): a path is a key of the index iff a tracked torrent lists
\* it in Files, and no key maps to an empty hash set.
C5_KeyIffTracked ==
    /\ \A p \in FilePaths \cup Keys :
          p \in Keys <=> \E h \in tracked : p \in FileSet(torrents[h])
    /\ \A p \in Keys : HashesOf(Self, p) # {}

\* C5 (amended): every key is listed by a tracked torrent (each hash under a
\* key is that of a tracked torrent listing the path), no key maps to an
\* empty hash set, and as long as RemovePath has deleted no key every path a
\* tracked torrent lists is a key holding that torrent's hash.
C5_KeysAreTracked ==
    /\ \A p \in Keys :
          /\ HashesOf(Self, p) # {}
          /\ \A h \in HashesOf(Self, p) :
                /\ h \in tracked
                /\ p \in FileSet(torrents[h])
                /\ torrentFileMap[p][h] = torrents[h]
    /\ ~pruned =>
          \A h \in tracked : \A p \in FileSet(torrents[h]) : h \in HashesOf(Self, p)

\* C5 witness: RemovePath has deleted a key that a tracked torrent lists.
C5_Witness ==
    /\ last.op = "RemovePath" /\ last.flag
    /\ last.path \notin Keys
    /\ \E h \in tracked : last.path \in FileSet(torrents[h])

\* C6: adding a torrent twice leaves the map, the sorted index and the length
\* as adding it once does.
C6_IdempotentAdd ==
    \A h \in Hashes :
        LET once == Add(Self, torrents[h])
            twice == Add(once, torrents[h])
        IN /\ twice.torrentFileMap = once.torrentFileMap
           /\ twice.pathIndex = once.pathIndex
           /\ Length(twice) = Length(once)

\* C6 witness: a torrent with files has been added while it was registered.
C6_Witness ==
    /\ last.op = "Add" /\ ~last.flag
    /\ FileSet(torrents[last.hash]) # {}
    /\ \A p \in FileSet(torrents[last.hash]) : last.hash \in HashesOf(Self, p)

\* C7 (as claimed): for a torrent whose hash is registered under no path, Add
\* followed by Remove restores the length and the HasPath result of every
\* path.
C7_AddRemoveRestores ==
    \A h \in Hashes :
        ~Registered(Self, h) =>
            LET back == Remove(Add(Self, torrents[h]), torrents[h])
            IN /\ Length(back) = Length(Self)
               /\ \A p \in LocalPaths :
                     Outcomes(back, p, clientDownloadPathMapping)
                         = Outcomes(Self, p, clientDownloadPathMapping)

\* C8: IsUnique is true iff no file path of the torrent is registered under
\* more than one hash; tracked torrents that share a path are both not unique
\* (as long as RemovePath has deleted no key), and a tracked torrent that
\* shares no path with another tracked torrent is unique.
C8_IsUnique ==
    /\ \A h \in Hashes :
          IsUnique(Self, torrents[h])
              <=> \A p \in FileSet(torrents[h]) : Cardinality(HashesOf(Self, p)) <= 1
    /\ \A h \in tracked :
          (\A g \in tracked \ {h} : FileSet(torrents[g]) \cap FileSet(torrents[h]) = {})
              => IsUnique(Self, torrents[h])
    /\ ~pruned =>
          \A g, h \in tracked :
              (g # h /\ FileSet(torrents[g]) \cap FileSet(torrents[h]) # {})
                  => (~IsUnique(Self, torrents[g]) /\ ~IsUnique(Self, torrents[h]))

\* C8 witness: two torrents that share no file have been added, both unique.
C8_Witness ==
    /\ last.op = "Add" /\ last.flag
    /\ \E g \in tracked \ {last.hash} :
          /\ FileSet(torrents[g]) # {} /\ FileSet(torrents[last.hash]) # {}
          /\ FileSet(torrents[g]) \cap FileSet(torrents[last.hash]) = {}
          /\ Registered(Self, g)
          /\ IsUnique(Self, torrents[g]) /\ IsUnique(Self, torrents[last.hash])

\* C9: NoInstances is true iff no file path of the torrent is a key; right
\* after Remove(T) it is true exactly when no tracked torrent is registered
\* under a file of T, which (as long as RemovePath has deleted no key) is when
\* no tracked torrent lists a file of T.
C9_NoInstances ==
    /\ \A h \in Hashes :
          NoInstances(Self, torrents[h]) <=> FileSet(torrents[h]) \cap Keys = {}
    /\ last.op = "Remove" =>
          (NoInstances(Self, torrents[last.hash])
              <=> \A g \in tracked : \A p \in FileSet(torrents[last.hash]) :
                      g \notin HashesOf(Self, p))
    /\ (last.op = "Remove" /\ ~pruned) =>
          (NoInstances(Self, torrents[last.hash])
              <=> \A g \in tracked :
                      FileSet(torrents[g]) \cap FileSet(torrents[last.hash]) = {})

\* C9 witness: a registered torrent with files has been removed while another
\* torrent stays tracked, and no instance of it is left.
C9_Witness ==
    /\ last.op = "Remove" /\ last.flag /\ ~pruned
    /\ tracked # {} /\ Keys # {}
    /\ NoInstances(Self, torrents[last.hash])

\* C10: Remove(T) deletes exactly the keys among T's paths that hold no hash
\* but T's: the length decreases by their number, every other key stays and
\* loses only T's hash, the sorted index is that of the keys left, and a
\* torrent that shared paths with T only is unique afterwards.
C10_RemoveLastReference ==
    \A h \in Hashes :
        LET T == torrents[h]
            after == Remove(Self, T)
            gone == { p \in FileSet(T) \cap Keys : HashesOf(Self, p) \subseteq {h} }
        IN /\ Length(Self) - Length(after) = Cardinality(gone)
           /\ DOMAIN after.torrentFileMap = Keys \ gone
           /\ \A p \in Keys \ gone :
                 HashesOf(after, p) = HashesOf(Self, p) \ (IF p \in FileSet(T) THEN {h} ELSE {})
           /\ after.pathIndex = SortStrings(Keys \ gone)
           /\ \A g \in Hashes \ {h} :
                 (\A p \in FileSet(torrents[g]) : HashesOf(Self, p) \subseteq {g, h})
                     => IsUnique(after, torrents[g])

\* C10 witness: torrent 1, which shared file "1" with torrent 2, has been
\* removed: the file is still indexed and torrent 2 is unique.
C10_Witness ==
    /\ last.op = "Remove" /\ last.flag /\ last.hash = 1 /\ ~pruned
    /\ 2 \in tracked
    /\ <<1>> \in Keys
    /\ Length(Self) >= 2
    /\ IsUnique(Self, torrents[2])

\* the operation is one that holds the write lock from Lock to Unlock
Writing(g) == pc[g].op \in { "Add", "Remove", "RemovePath" }

\* the operation is inside the read lock
Reading(g) ==
    /\ pc[g].op \in { "IsUnique", "NoInstances", "Length", "HasPath" }
    /\ pc[g].at \in { "files", "len", "eval", "runlock" }

\* only some of the files of the torrent are registered under its hash
Partial(h) ==
    LET reg == { p \in FileSet(torrents[h]) : h \in HashesOf(Self, p) }
    IN reg # {} /\ reg # FileSet(torrents[h])

\* C11: the operations of the TorrentFileMap are linearizable: writers hold
\* the lock alone; while a query holds the shared lock the path index is the
\* sorted key set of the map and no torrent is registered with only some of
\* its files (no key having been deleted by RemovePath); every query returns
\* what the operation returns on the map as it was when the lock was
\* acquired, and every writer leaves what the operation applied in one step
\* leaves.
C11_Linearizable ==
    \A g \in Goroutines :
        /\ Writing(g) => (mu.writer = g /\ mu.readers = {})
        /\ Reading(g) =>
              /\ g \in mu.readers
              /\ mu.writer = NoGoroutine
              /\ indexDirty = FALSE
              /\ pathIndex = SortStrings(DOMAIN torrentFileMap)
              /\ ~pruned => \A h \in LockHashes : ~Partial(h)
        /\ (Reading(g) /\ pc[g].at = "runlock") => pc[g].result = pc[g].want
        /\ (Writing(g) /\ pc[g].at = "unlock") =>
              /\ torrentFileMap = pc[g].want.torrentFileMap
              /\ pathIndex = pc[g].want.pathIndex
              /\ indexDirty = pc[g].want.indexDirty
              /\ mappingCache = pc[g].want.mappingCache

\* C11 witness: a query is in its loop at the second file of a registered
\* torrent while the other goroutine is inside HasPath, about to take the
\* shared lock.
C11_Witness ==
    /\ pc["g1"].op = "IsUnique" /\ pc["g1"].at = "files" /\ pc["g1"].i = 2
    /\ pc["g1"].hash = 2
    /\ Registered(Self, 2)
    /\ pc["g2"].op = "HasPath" /\ pc["g2"].at = "rlock"

\* the mapped paths of a torrent that resolve, each with its identity
Resolved(h) ==
    { [f |-> considerPathMapping(torrentPathMapping, hlTorrents[h].Files[i], order),
       id |-> linkInfoByPath(fs, considerPathMapping(torrentPathMapping,
                                                     hlTorrents[h].Files[i], order)).id] :
          i \in 1..Len(hlTorrents[h].Files), order \in Orders(DOMAIN torrentPathMapping) }
    \ { [f |-> p, id |-> NoFile] : p \in HPaths }

\* C12: with AddByTorrent and the queries of the HardlinkFileMap called
\* concurrently, the process keeps running and, once the calls have returned,
\* no path registered by an AddByTorrent is missing from its identity bucket.
C12_NoPathLost ==
    /\ Alive
    /\ (\A g \in Goroutines : pc[g] = IdlePC) =>
          \A h \in tracked : \A r \in Resolved(h) :
              /\ r.id \in DOMAIN hardlinkFileMap
              /\ InSlice(hardlinkFileMap[r.id], r.f)

\* the identity the i-th file of a torrent resolves to now
Ident(h, i, order) ==
    linkInfoByPath(fs, considerPathMapping(torrentPathMapping,
                                           hlTorrents[h].Files[i], order))

\* the number of paths in the bucket of an identity, 0 when it is absent
BucketSize(id) == IF id \in DOMAIN hardlinkFileMap THEN Len(hardlinkFileMap[id]) ELSE 0

\* the downloaded torrents
Downloaded == { h \in HHashes : hlTorrents[h].Downloaded }

\* C13 as stated: IsTorrentUnique of a downloaded torrent is true iff every
\* file resolves to a bucket that contains exactly one path.
C13_ExactlyOnePath ==
    \A h \in Downloaded : \A orders \in HOrders(torrentPathMapping, hlTorrents[h]) :
        IsTorrentUnique(hardlinkFileMap, fs, torrentPathMapping, hlTorrents[h], orders)
            <=> \A i \in 1..Len(hlTorrents[h].Files) :
                    /\ Ident(h, i, orders[i]).ok
                    /\ BucketSize(Ident(h, i, orders[i]).id) = 1

\* C13 amended: IsTorrentUnique of a downloaded torrent is true iff every
\* file resolves and its bucket holds at most one path (it may be absent);
\* right after AddByTorrent every resolving path of the torrent is in the
\* bucket of its identity, and two torrents with different paths in one
\* bucket are both not unique.
C13_AtMostOnePath ==
    /\ \A h \in Downloaded : \A orders \in HOrders(torrentPathMapping, hlTorrents[h]) :
          IsTorrentUnique(hardlinkFileMap, fs, torrentPathMapping, hlTorrents[h], orders)
              <=> \A i \in 1..Len(hlTorrents[h].Files) :
                      /\ Ident(h, i, orders[i]).ok
                      /\ BucketSize(Ident(h, i, orders[i]).id) <= 1
    /\ (last.op = "AddByTorrent" /\ last.hash \in Downloaded) =>
          \A r \in Resolved(last.hash) :
              r.id \in DOMAIN hardlinkFileMap /\ InSlice(hardlinkFileMap[r.id], r.f)
    /\ \A h1 \in Downloaded : \A h2 \in Downloaded \ {h1} :
          \A r1 \in Resolved(h1) : \A r2 \in Resolved(h2) :
              ( /\ r1.id = r2.id /\ r1.f # r2.f
                /\ r1.id \in DOMAIN hardlinkFileMap
                /\ InSlice(hardlinkFileMap[r1.id], r1.f)
                /\ InSlice(hardlinkFileMap[r1.id], r2.f) )
              => \A o1 \in HOrders(torrentPathMapping, hlTorrents[h1]) :
                     ~IsTorrentUnique(hardlinkFileMap, fs, torrentPathMapping,
                                      hlTorrents[h1], o1)

\* C13 witness: torrent 2 has just been added, its path and the path of
\* torrent 1 are links of one file and share its bucket.
C13_Witness ==
    /\ last.op = "AddByTorrent" /\ last.hash = 2
    /\ torrentPathMapping = NoMapping
    /\ fs.ino[<<1>>] = fs.ino[<<2>>] /\ fs.ino[<<1>>] # NoFile
    /\ fs.ino[<<1>>] \in DOMAIN hardlinkFileMap
    /\ hardlinkFileMap[fs.ino[<<1>>]] = << <<1>>, <<2>> >>
    /\ \A orders \in HOrders(torrentPathMapping, hlTorrents[1]) :
          ~IsTorrentUnique(hardlinkFileMap, fs, torrentPathMapping, hlTorrents[1], orders)

C15_LinkCountDiffers ==
    \A h \in Downloaded : \A orders \in HOrders(torrentPathMapping, hlTorrents[h]) :
        HardlinkedOutsideClient(hardlinkFileMap, fs, torrentPathMapping,
                                hlTorrents[h], orders)
            <=> \E i \in 1..Len(hlTorrents[h].Files) :
                    /\ Ident(h, i, orders[i]).ok
                    /\ Nlink(fs, Ident(h, i, orders[i]).id)
                           # BucketSize(Ident(h, i, orders[i]).id)

\* C15 witness: after an AddByTorrent the file of torrent 1 has link count 3
\* and two known paths, and torrent 1 is hardlinked outside the client.
C15_Witness ==
    /\ last.op = "AddByTorrent"
    /\ torrentPathMapping = NoMapping
    /\ linkInfoByPath(fs, <<1>>).ok
    /\ linkInfoByPath(fs, <<1>>).nlink = 3
    /\ BucketSize(linkInfoByPath(fs, <<1>>).id) = 2
    /\ \A orders \in HOrders(torrentPathMapping, hlTorrents[1]) :
          HardlinkedOutsideClient(hardlinkFileMap, fs, torrentPathMapping,
                                  hlTorrents[1], orders)

\* C16: a torrent that is not downloaded never touches the index:
\* AddByTorrent and RemoveByTorrent leave every bucket unchanged, and
\* IsTorrentUnique is true, NoInstances is true and HardlinkedOutsideClient
\* is false, in every state of the index and of the filesystem.
C16_NotDownloadedUntouched ==
    \A h \in HHashes \ Downloaded :
        \A orders \in HOrders(torrentPathMapping, hlTorrents[h]) :
            /\ AddByTorrent(hardlinkFileMap, fs, torrentPathMapping, hlTorrents[h], orders)
                   = hardlinkFileMap
            /\ RemoveByTorrent(hardlinkFileMap, fs, torrentPathMapping, hlTorrents[h], orders)
                   = hardlinkFileMap
            /\ IsTorrentUnique(hardlinkFileMap, fs, torrentPathMapping, hlTorrents[h], orders)
            /\ hlNoInstances(hardlinkFileMap, fs, torrentPathMapping, hlTorrents[h], orders)
            /\ ~HardlinkedOutsideClient(hardlinkFileMap, fs, torrentPathMapping,
                                        hlTorrents[h], orders)

\* C16 witness: AddByTorrent has just been called with torrent 4, which is
\* not downloaded; its files resolve, one of them to an identity that has a
\* bucket and a link count different from the size of the bucket, and none
\* of its paths is in a bucket.
C16_Witness ==
    /\ last.op = "AddByTorrent" /\ last.hash = 4
    /\ torrentPathMapping = NoMapping
    /\ linkInfoByPath(fs, <<3>>).ok /\ linkInfoByPath(fs, <<2>>).ok
    /\ BucketSize(linkInfoByPath(fs, <<2>>).id) = 1
    /\ linkInfoByPath(fs, <<2>>).nlink = 2
    /\ \A id \in DOMAIN hardlinkFileMap :
          ~InSlice(hardlinkFileMap[id], <<3>>) /\ ~InSlice(hardlinkFileMap[id], <<2>>)

\* C17: no bucket of the index is empty, no path occurs more than once in
\* a bucket, and Length is the number of identities that have a path.
C17_BucketInvariants ==
    /\ \A id \in DOMAIN hardlinkFileMap :
          /\ Len(hardlinkFileMap[id]) >= 1
          /\ \A k \in 1..Len(hardlinkFileMap[id]) : \A l \in 1..Len(hardlinkFileMap[id]) :
                hardlinkFileMap[id][k] = hardlinkFileMap[id][l] => k = l
    /\ hlLength(hardlinkFileMap) = Cardinality({ id \in Inodes : BucketSize(id) > 0 })

\* C17 witness: RemoveByTorrent of torrent 1 has just removed the bucket of
\* its file, and the other bucket holds two paths.
C17_Witness ==
    /\ last.op = "RemoveByTorrent" /\ last.hash = 1
    /\ torrentPathMapping = NoMapping
    /\ linkInfoByPath(fs, <<1>>).ok
    /\ BucketSize(linkInfoByPath(fs, <<1>>).id) = 0
    /\ hlLength(hardlinkFileMap) = 1
    /\ \E id \in DOMAIN hardlinkFileMap : Len(hardlinkFileMap[id]) = 2

\* the paths of a torrent after the mapping
MappedPaths(h) ==
    { considerPathMapping(torrentPathMapping, hlTorrents[h].Files[i], order) :
          i \in 1..Len(hlTorrents[h].Files), order \in Orders(DOMAIN torrentPathMapping) }

\* C18: right after RemoveByTorrent of a downloaded torrent, no bucket holds
\* a mapped path of the torrent, whatever has happened to its files since
\* they were added.
C18_RemoveIsInverse ==
    (last.op = "RemoveByTorrent" /\ last.hash \in Downloaded) =>
        \A id \in DOMAIN hardlinkFileMap : \A p \in MappedPaths(last.hash) :
            ~InSlice(hardlinkFileMap[id], p)

\* C19: a step of AddByTorrent with a downloaded torrent registers every
\* path of the torrent that resolves, whether or not other files of the
\* torrent fail to resolve; every bucket keeps the paths it had, in their
\* order, and gains only paths of the torrent that resolve to its identity.
C19_FailureSkipsOneFile ==
    [][ (last'.op = "AddByTorrent" /\ last'.hash \in Downloaded) =>
            /\ \A r \in Resolved(last'.hash) :
                  /\ r.id \in DOMAIN hardlinkFileMap'
                  /\ InSlice(hardlinkFileMap'[r.id], r.f)
            /\ \A id \in DOMAIN hardlinkFileMap :
                  /\ id \in DOMAIN hardlinkFileMap'
                  /\ Len(hardlinkFileMap'[id]) >= Len(hardlinkFileMap[id])
                  /\ SubSeq(hardlinkFileMap'[id], 1, Len(hardlinkFileMap[id]))
                         = hardlinkFileMap[id]
            /\ \A id \in DOMAIN hardlinkFileMap' :
                  \A k \in (BucketSize(id) + 1)..Len(hardlinkFileMap'[id]) :
                      [f |-> hardlinkFileMap'[id][k], id |-> id] \in Resolved(last'.hash)
      ]_vars

\* C19 witness: AddByTorrent of torrent 3 has just run while its first file
\* failed to resolve: its second file is in the bucket of its identity, the
\* first is in no bucket, and another bucket is in the index.
C19_Witness ==
    /\ last.op = "AddByTorrent" /\ last.hash = 3
    /\ torrentPathMapping = NoMapping
    /\ ~linkInfoByPath(fs, <<1>>).ok
    /\ linkInfoByPath(fs, <<3>>).ok
    /\ linkInfoByPath(fs, <<3>>).id \in DOMAIN hardlinkFileMap
    /\ InSlice(hardlinkFileMap[linkInfoByPath(fs, <<3>>).id], <<3>>)
    /\ \A id \in DOMAIN hardlinkFileMap : ~InSlice(hardlinkFileMap[id], <<1>>)
    /\ hlLength(hardlinkFileMap) = 2

\* C20: IsTorrentUnique, NoInstances and Length are answered from the
\* buckets alone: a step that changes the filesystem and leaves the index
\* unchanged changes none of their results.
C20_QueriesReadBucketsOnly ==
    [][ hardlinkFileMap' = hardlinkFileMap =>
            /\ hlLength(hardlinkFileMap') = hlLength(hardlinkFileMap)
            /\ \A h \in HHashes : \A orders \in HOrders(torrentPathMapping, hlTorrents[h]) :
                  /\ IsTorrentUnique(hardlinkFileMap', fs', torrentPathMapping,
                                     hlTorrents[h], orders)
                         = IsTorrentUnique(hardlinkFileMap, fs, torrentPathMapping,
                                           hlTorrents[h], orders)
                  /\ hlNoInstances(hardlinkFileMap', fs', torrentPathMapping,
                                   hlTorrents[h], orders)
                         = hlNoInstances(hardlinkFileMap, fs, torrentPathMapping,
                                         hlTorrents[h], orders)
      ]_vars

\* C21: whatever order the entries of a mapping table are iterated in,
\* mappingCacheKey returns the key its cache entry is stored under, and a
\* table has one cache entry only
C21_KeyOrderIndependent ==
    /\ \A k \in DOMAIN keyCache :
           \A o \in Orders(DOMAIN keyCache[k].mapping) :
               mappingCacheKeyFrom(keyCache[k].mapping, o) = k
    /\ \A k1, k2 \in DOMAIN keyCache :
           keyCache[k1].mapping = keyCache[k2].mapping => k1 = k2

\* a table of three rules was looked up again, iterated in another order,
\* and found
C21_Witness ==
    \E k \in DOMAIN keyCache :
        /\ keyCache[k].reused
        /\ Cardinality(DOMAIN keyCache[k].mapping) = 3

\* the file's goroutine is inside the per-file function
InProgress(f) == worker[f] \in { "classify", "remove" }

\* HasPath was called with the path and returned false
NotFound(p) == p \in DOMAIN pathCache /\ ~pathCache[p]

\* os.Remove was called with the path, or is the next statement for it
Removing(p) ==
    \/ result[p] \in { "removed", "failed", "checked" }
    \/ p \in localFilePaths /\ worker[p] = "remove"

\* C22: a file is removed (or reported by a dry run) only if HasPath returned
\* false for it, no ignore pattern matches it and it is older than the grace
\* period; the ignore patterns are consulted only after HasPath returned false
\* and the grace period only for a file that is not ignored; a file HasPath
\* returned true for stays and is not counted as ignored
C22_FileClassification ==
    /\ \A f \in localFilePaths :
           /\ (Removing(f) \/ result[f] = "dryRun" \/ f \notin localFs)
                  => NotFound(f) /\ f \notin ignored /\ f \notin recent
           /\ result[f] = "ignored" => NotFound(f) /\ f \in ignored
           /\ result[f] = "recent" => NotFound(f) /\ f \notin ignored /\ f \in recent
           /\ (f \in DOMAIN pathCache /\ pathCache[f])
                  => f \in localFs /\ result[f] = "tracked"
           /\ f \in recent => f \in localFs
    /\ report.ignoredLocalFiles =
           Cardinality({ f \in localFilePaths : result[f] = "ignored" })

\* one file was tracked, one was inside the grace period, one was removed
C22_Witness ==
    /\ \E f \in localFilePaths : result[f] = "tracked"
    /\ \E f \in localFilePaths : result[f] = "recent"
    /\ \E f \in localFilePaths : result[f] = "removed" /\ f \notin localFs

\* C23: while a folder is looked at, checked or removed every per-file
\* function has returned; one folder at most is between its check and its
\* removal, and it is the one the folder loop is at
C23_FoldersAfterFiles ==
    /\ (scanPc.at \in { "checkFolder", "removeFolder", "done" }
        \/ \E d \in localFolderPaths : result[d] # "none" \/ d \notin localFs)
           => wg = 0 /\ \A f \in localFilePaths : worker[f] \in { "release", "exited" }
    /\ \A d \in localFolderPaths :
           result[d] = "checked"
               => scanPc.at = "removeFolder" /\ orphanFolderPaths[scanPc.k] = d

\* a folder is about to be removed after a file was removed, while a file's
\* goroutine has returned from the per-file function and not yet from the
\* deferred receive
C23_Witness ==
    /\ scanPc.at = "removeFolder"
    /\ \E f \in localFilePaths : f \notin localFs
    /\ \E f \in localFilePaths : worker[f] = "release"

\* C24: of any two candidate folders the one of greater depth is checked first
C24_DeepestFirst ==
    \A i, j \in 1..Len(orphanFolderPaths) :
        pathDepth(orphanFolderPaths[i]) > pathDepth(orphanFolderPaths[j]) => i < j

\* C25: a folder is removed (or reported by a dry run) only if HasPath returned
\* false for it, no ignore pattern matches it and it was empty when checked;
\* a folder that is not empty, one whose check failed, a tracked one and an
\* ignored one stay
C25_FolderRemoval ==
    \A d \in localFolderPaths :
        /\ (Removing(d) \/ result[d] = "dryRun" \/ d \notin localFs)
               => NotFound(d) /\ d \notin ignored /\ isDirEmpty(d, localFs)
        /\ result[d] \in { "notEmpty", "emptyErr", "tracked", "ignored" } => d \in localFs
        /\ d \notin localFs => result[d] = "removed"
        /\ result[d] = "tracked" => d \in DOMAIN pathCache /\ pathCache[d]
        /\ result[d] = "ignored" => d \in ignored

\* a folder was removed after the file in it, another was left because it
\* is not empty
C25_Witness ==
    /\ <<2, 2, 2, 2>> \notin localFs
    /\ \E d \in localFolderPaths : result[d] = "notEmpty"

\* C26: the failure counter is the number of removals the OS denied, a path
\* whose removal was denied stays and is not reported as removed, the removed
\* counters count the other removals, and when the scan ends every enumerated
\* path has been dealt with
C26_FailuresCounted ==
    /\ report.removeFailures =
           Cardinality({ p \in DOMAIN result : result[p] = "failed" })
    /\ \A p \in DOMAIN result :
           result[p] = "failed" => p \in localFs /\ p \notin report.fields
    /\ report.removedLocalFiles =
           Cardinality({ f \in localFilePaths : result[f] \in { "removed", "dryRun" } })
    /\ report.removedLocalFolders =
           Cardinality({ d \in localFolderPaths : result[d] \in { "removed", "dryRun" } })
    /\ scanPc.at = "done"
           => \A p \in DOMAIN result : result[p] \notin { "none", "checked" }

\* the scan ended after the OS denied the removal of a file and of a folder
\* and allowed another
C26_Witness ==
    /\ scanPc.at = "done"
    /\ \E f \in localFilePaths : result[f] = "failed"
    /\ \E d \in localFolderPaths : result[d] = "failed"
    /\ \E p \in DOMAIN result : result[p] = "removed"

\* C27: at most maxWorkers per-file functions are in progress
C27_BoundedWorkers ==
    /\ Cardinality({ f \in localFilePaths : InProgress(f) }) <= maxWorkers
    /\ workerSem <= maxWorkers

\* the send on workerSem waits: every token is taken and an item of the
\* batch is still to be started
C27_Witness ==
    /\ scanPc.at = "dispatch"
    /\ workerSem = maxWorkers
    /\ Cardinality({ f \in localFilePaths : InProgress(f) }) = maxWorkers

\* the setting is present and is not a map of strings
Malformed(cfg) ==
    cfg.present /\ (~cfg.isMap \/ \E k \in DOMAIN cfg.tmp : ~cfg.tmp[k].isString)

\* C28: with a malformed download_path_mapping the command ends at log.Fatal
\* with no mapping, the index not built and no path touched; with any other
\* setting it does not end there
C28_MalformedMappingIsFatal ==
    /\ Malformed(clientConfig) => scanPc.at \in { "config", "fatal" }
    /\ scanPc.at = "fatal" =>
           /\ Malformed(clientConfig)
           /\ clientDownloadPathMapping = NoMapping
           /\ torrentFileMap = EmptyMap
           /\ pathCache = EmptyMap
           /\ localFs = localFilePaths \cup localFolderPaths
           /\ report = NoReport
           /\ \A p \in DOMAIN result : result[p] = "none"

\* the command ended on a map that has a string value and a value that is
\* not a string
C28_Witness ==
    /\ scanPc.at = "fatal"
    /\ clientConfig.isMap
    /\ \E k \in DOMAIN clientConfig.tmp : clientConfig.tmp[k].isString

\* the checks a run without --dry-run makes on a path come out as they did
WouldPass(p) ==
    /\ NotFound(p)
    /\ p \notin ignored
    /\ p \notin recent
    /\ result[p] \notin { "statErr", "emptyErr" }

\* the paths a run without --dry-run removes when the OS denies nothing: the
\* files that pass the checks and the folders that pass them and hold nothing
\* but such paths
WouldRemove ==
    { p \in DOMAIN result :
          /\ WouldPass(p)
          /\ \A q \in DOMAIN result : HasPrefix(q, p \o <<SlashByte>>) => WouldPass(q) }

\* C30 as stated: a dry run reports the paths a run would have removed
C30_ReportsWhatARunRemoves ==
    (flagDryRun /\ scanPc.at = "done") => report.fields = WouldRemove

\* C30: with --dry-run no path is removed and os.Remove is never reached; the
\* paths reported are the files that pass the checks and the candidate
\* folders that are empty when checked
C30_DryRunRemovesNothing ==
    flagDryRun =>
        /\ localFs = localFilePaths \cup localFolderPaths
        /\ scanPc.at # "removeFolder"
        /\ \A p \in DOMAIN result :
               /\ ~Removing(p)
               /\ p \in report.fields <=> result[p] = "dryRun"
               /\ result[p] = "dryRun" => WouldPass(p) /\ isDirEmpty(p, localFs)
        /\ scanPc.at = "done" =>
               report.fields = { p \in DOMAIN result : WouldPass(p) /\ isDirEmpty(p, localFs) }

\* a dry run ended having reported a file and the empty folder
C30_Witness ==
    /\ flagDryRun
    /\ scanPc.at = "done"
    /\ \E f \in localFilePaths : f \in report.fields
    /\ <<2>> \in report.fields

\* C29: one API request at most succeeds and none is made once the list has
\* been fetched; a call that returns without error reports the hash
\* unregistered exactly when the fetched list holds it in some letter case
C29_FetchedOnce ==
    /\ apiCalls.ok <= 1
    /\ ~apiCalls.refetched
    /\ unregisteredFetched <=> apiCalls.ok = 1
    /\ \A g \in Goroutines :
           (ptpCall[g].at = "returned" /\ ~ptpCall[g].err)
               => (ptpCall[g].isUnregistered
                       <=> \E h \in fetchedList : ToUpper(h) = ToUpper(ptpCall[g].hash))

\* after a failed request a request succeeded; the tracker's list has changed
\* since, and a call is answered from the cache for a hash the fetched list
\* holds in another letter case and the tracker's list no longer holds
C29_Witness ==
    /\ apiCalls.ok = 1
    /\ apiCalls.failed >= 1
    /\ apiUnregistered = {}
    /\ \E g \in Goroutines :
           /\ ptpCall[g].at = "returned"
           /\ ptpCall[g].isUnregistered
           /\ ptpCall[g].hash \notin fetchedList

\* C31: hasPathDirect over the sorted index returns what the linear scan it
\* replaced returns, for every reachable index and every query path
C31_SameAsLinearScan ==
    \A p \in LocalPaths : hasPathDirect(Self, p) = hasPathDirectLinear(Self, p)

\* C32: on an index that does not change, HasPath returns for a path and a
\* mapping table what the evaluation of the path against that table returns,
\* whatever tables the path was queried with before
C32_ResultIsForMapping ==
    last.op = "HasPath"
        => last.flag \in Outcomes(Uncached(Self), last.path, clientDownloadPathMapping)


\* C33 (as claimed): with HasPath(p) and RemovePath(p) called concurrently and
\* no Add or Remove, once no call is in progress the per-path cache holds for p
\* nothing but the result of an uncached evaluation on the current index, so
\* a HasPath(p) that starts then returns that result.
C33_NoStaleResultAfterRemovePath ==
    \A p \in RemovedPaths :
        (p \in DOMAIN pathCache /\ \A g \in Goroutines : pc[g] = IdlePC)
            => pathCache[p] \in Outcomes(Uncached(Self), p, clientDownloadPathMapping)


\* the index holds exactly what New builds from torrents h1 and h2 on the
\* filesystem as it is: both torrents are tracked and nothing else is
TracksBoth(h1, h2) ==
    \E allOrders \in AllHOrders(torrentPathMapping, <<hlTorrents[h1], hlTorrents[h2]>>) :
        hardlinkFileMap = hlNew(fs, torrentPathMapping,
                                <<hlTorrents[h1], hlTorrents[h2]>>, allOrders)

\* C34 (as claimed): when two downloaded tracked torrents list the same
\* mapped path, a RemoveByTorrent of the first leaves the path in the bucket
\* of its identity, and NoInstances of the second is still false.
C34_SharedPathSurvivesRemove ==
    [][ \A h1 \in Downloaded : \A h2 \in Downloaded \ {h1} :
            (/\ last'.op = "RemoveByTorrent" /\ last'.hash = h1
             /\ TracksBoth(h1, h2)
             /\ Resolved(h1) \cap Resolved(h2) # {})
            => /\ \A r \in Resolved(h1) \cap Resolved(h2) :
                     /\ r.id \in DOMAIN hardlinkFileMap'
                     /\ InSlice(hardlinkFileMap'[r.id], r.f)
               /\ \A orders \in HOrders(torrentPathMapping, hlTorrents[h2]) :
                     ~hlNoInstances(hardlinkFileMap', fs', torrentPathMapping,
                                    hlTorrents[h2], orders)
      ]_vars


\* the goroutines that have been started and have not called wg.Done
Running == { p \in DOMAIN worker : worker[p] \in { "classify", "remove" } }

\* C35: processInBatches hands every item of the map to the per-file function
\* exactly once, for maps smaller than, as large as, a multiple of and larger
\* than batchSize: when it has returned no item is left out, a goroutine is
\* only ever started for an item that had none before, and the WaitGroup
\* counts one Add for every goroutine started.
C35_EveryItemOnce ==
    /\ [](scanPc.at = "wait" => \A p \in DOMAIN worker : worker[p] # "none")
    /\ [](wg = Cardinality(Running))
    /\ [][ \A p \in DOMAIN worker :
               (worker'[p] = "classify" /\ worker[p] # "classify") => worker[p] = "none"
         ]_vars

\* C35 witness: processInBatches has returned on a map larger than batchSize
\* whose size is a multiple of batchSize, and every goroutine has exited.
C35_Witness ==
    /\ scanPc.at = "wait"
    /\ Cardinality(DOMAIN worker) > batchSize
    /\ Cardinality(DOMAIN worker) % batchSize = 0
    /\ \A p \in DOMAIN worker : worker[p] = "exited"

\* C36: under fair scheduling of the dispatcher and the workers, for every
\* number of items processInBatches returns and the wg.Wait that follows
\* returns, every goroutine having released its slot of the semaphore; the
\* semaphore never holds more than maxWorkers slots and the WaitGroup counter
\* never goes below zero.
C36_FilePhaseTerminates ==
    /\ <>[](/\ scanPc.at = "wait"
            /\ waitDone(wg)
            /\ workerSem = 0
            /\ \A p \in DOMAIN worker : worker[p] = "exited")
    /\ [](wg >= 0 /\ workerSem >= 0 /\ workerSem <= maxWorkers)

\* C36 witness: wg.Wait can return after a run in which the map had more
\* items than the semaphore has slots.
C36_Witness ==
    /\ scanPc.at = "wait"
    /\ waitDone(wg)
    /\ workerSem = 0
    /\ Cardinality(DOMAIN worker) > maxWorkers
    /\ \A p \in DOMAIN worker : worker[p] = "exited"


\* folder q lies below folder p
Below(q, p) == HasPrefix(q, p \o <<SlashByte>>)

\* C37: of two orphan folders of which one lies below the other, the one
\* below comes first in the folder loop; hence a folder that the loop has
\* found not empty still has something below it at every later moment: a
\* folder emptied by the removal of its orphan subfolders is never passed over.
C37_ChildBeforeParent ==
    /\ \A i, j \in 1..Len(orphanFolderPaths) :
          Below(orphanFolderPaths[j], orphanFolderPaths[i]) => j < i
    /\ \A p \in localFolderPaths :
          result[p] = "notEmpty" => ~isDirEmpty(p, localFs)

\* C37 witness: the run is over, the orphan folder "a/a" has been removed and
\* after it its parent "a", which held nothing else by then.
C37_Witness ==
    /\ scanPc.at = "done"
    /\ result[<<1, SlashByte, 1>>] = "removed"
    /\ result[<<1>>] = "removed"


\* C38: when IsTrackerDown is true of a torrent, IsUnregistered returns false
\* and has neither looked at the unregistered patterns nor called the tracker
\* API; for an empty tracker status and for a tracker in ignored_trackers
\* both IsTrackerDown and IsUnregistered return false.
C38_DownIsNeverUnregistered ==
    /\ (trackerCheck.op = "IsUnregistered" /\ trackerCheck.down)
          => trackerCheck.answer = Answer(FALSE, FALSE, FALSE)
    /\ (/\ trackerCheck.op \in { "IsTrackerDown", "IsUnregistered" }
        /\ (trackerCheck.TrackerStatus = <<>> \/ trackerCheck.cfg.ignoredTracker))
          => ~trackerCheck.down /\ ~trackerCheck.answer.result

\* C38 witness: IsUnregistered has returned false for a torrent whose status
\* "du" matches a down pattern and an unregistered pattern, on a tracker whose
\* API reports the torrent as unregistered.
C38_Witness ==
    /\ trackerCheck.op = "IsUnregistered"
    /\ trackerCheck.down
    /\ trackerCheck.TrackerStatus = <<100, 117>>
    /\ trackerCheck.api = "unregistered"
    /\ unregisteredByStatus(trackerCheck).result
    /\ ~trackerCheck.answer.result


\* the goroutines whose API request is in flight
Fetching == { g \in Goroutines : ptpCall[g].at = "fetch" }

\* C39: a failed fetch makes the call return an error and false, leaves the
\* fetched flag false and the cache as it was, and releases the mutex; a call
\* skips the fetch only when the flag is set, so the next call fetches again;
\* at most one request is in flight at a time, and none is made after a
\* request has succeeded.
C39_FailedFetchIsRetried ==
    /\ [](Cardinality(Fetching) <= 1)
    /\ [](\A g \in Fetching : ~unregisteredFetched)
    /\ [][ \A g \in Goroutines :
               /\ (ptpCall[g].at = "fetch" /\ ptpCall'[g].err)
                      => /\ ptpCall'[g].at = "returned"
                         /\ ~ptpCall'[g].isUnregistered
                         /\ ~unregisteredFetched'
                         /\ unregisteredCache' = unregisteredCache
                         /\ canLockMux(ptpCall')
               /\ (ptpCall[g].at = "lock" /\ ptpCall'[g].at # "lock")
                      => (ptpCall'[g].at = "fetch" <=> ~unregisteredFetched)
         ]_vars

\* C39 witness: a request has failed, the flag is still false, and the request
\* of a later call is in flight while another goroutine waits for the mutex.
C39_Witness ==
    /\ apiCalls.failed >= 1
    /\ ~unregisteredFetched
    /\ \E g \in Goroutines : \E w \in Goroutines :
           /\ ptpCall[g].at = "fetch"
           /\ ptpCall[w].at = "lock"


\* the goroutines whose call has gone through the slow path of getOrBuild
ThroughSlowPath == { g \in Goroutines : "built" \in DOMAIN pc[g] }

\* C40: whenever no goroutine holds the write lock of the TorrentFileMap,
\* every cache of the manager is the one cache of the mapping in use, built
\* from the sorted path index as it is now; and a call builds a cache only
\* when the manager holds none for the key, so concurrent callers build it
\* once between two invalidations.
C40_MappedCachesAreFresh ==
    /\ [](mu.writer = NoGoroutine =>
             \A key \in DOMAIN mappingCache :
                 /\ key = mappingCacheKey(clientDownloadPathMapping)
                 /\ \E orders \in IterationOrders(pathIndex, clientDownloadPathMapping) :
                        mappingCache[key]
                            = buildMappedPathCache(pathIndex, clientDownloadPathMapping,
                                                   orders))
    /\ [][ \A g \in Goroutines :
               (pc[g].at = "slow" /\ pc'[g].at = "runlock" /\ pc'[g].built)
                   => mappingCacheKey(clientDownloadPathMapping) \notin DOMAIN mappingCache
         ]_vars

\* C40 witness: after a RemovePath has emptied the manager, two concurrent
\* calls of HasPath have missed on the fast path; one has built the cache and
\* the other has found it at the second lookup.
C40_Witness ==
    /\ pruned
    /\ \E g \in ThroughSlowPath : \E w \in ThroughSlowPath :
           /\ pc[g].at = "runlock" /\ pc[g].built
           /\ pc[w].at = "runlock" /\ ~pc[w].built
    /\ mappingCacheKey(clientDownloadPathMapping) \in DOMAIN mappingCache

====
